---------------------------- MODULE Spec2Model ----------------------------
(***************************************************************************)
(* The authorization rules engine of oauth2-proxy: Rule, the Path, Methods *)
(* and Network indices, and RulesEngine with its self-reordering           *)
(* evaluation (pkg/authorization).                                         *)
(*                                                                         *)
(* Go strings that the code inspects character by character (path          *)
(* regexes, request paths, method names) are sequences of one-character    *)
(* strings.  Rules are shared by pointer between the engine's list and the *)
(* index buckets: a rule is named by its handle, its position in           *)
(* RulesEngine.Rules, and the buckets hold handles.                        *)
(***************************************************************************)
EXTENDS Integers, Sequences, FiniteSets, TLC

VARIABLES
    Rules,          \* RulesEngine.Rules: the rules, each with its hits
    Indices,        \* RulesEngine.Indices: names of the active indices, in order
    optimize,       \* RulesEngine.optimize
    pathIndex,      \* PathIndex{paths, hits}
    methodsIndex,   \* MethodsIndex{methods, hits}
    ipsIndex,       \* IPsIndex{Rules, trustedIPs, hits}
    calls,          \* number of Allow/Deny calls started so far
    last,           \* the last operation: its inputs, its result and how it was reached
    wk,             \* the workers of the concurrent evaluation: position and locals
    entries,        \* the arguments NewRule was called with by the validation so far
    msgs,           \* the messages of the validation: one per NewRule that failed
    cookieOpts,     \* options.Cookie: Name, Secret, Expire
    token,          \* the csrf made by NewCSRF for the login under way, or none
    jar,            \* the CSRF cookie the request carries: its name and value, or none
    clock,          \* now(), in seconds
    loaded,         \* the csrf LoadCSRFCookie returned last, or none
    session,        \* the sessions.SessionState of the callback
    routes,         \* allowlist.Routes: global and methods
    allowIPs        \* allowlist.IPs: rawIPs and trustedIPs

vars ==
    <<Rules, Indices, optimize, pathIndex, methodsIndex, ipsIndex, calls, last, wk,
      entries, msgs, cookieOpts, token, jar, clock, loaded, session, routes, allowIPs>>

\* what the rules engine does not touch: the validation's record, the CSRF
\* cookie and the allowlist
restVars == <<entries, msgs, cookieOpts, token, jar, clock, loaded, session, routes, allowIPs>>

engineVars == <<Rules, Indices, optimize, pathIndex, methodsIndex, ipsIndex>>

-----------------------------------------------------------------------------
(* Bounds of the model *)

\* rules added to one engine in the general specification
MaxRules == 7

\* Allow/Deny calls made in the general specification
MaxCalls == 2

\* scenario S4: the number of rules, the position of the rule GET /api/x is
\* for, the number of requests after which the scenario is judged, and the
\* number of requests made
S4Rules == 20
S4Target == 17
S4Judged == 20
S4MaxCalls == 22

\* scenario S4: the rules around the target repeat with this period
S4Period == 3

\* Allow/Deny calls started in the concurrent specification
MaxConcCalls == 3

\* entries the validation goes through, and Allow/Deny calls made after it
MaxEntries == 1
MaxEntryCalls == 1

-----------------------------------------------------------------------------
(* Strings *)

Str_healthz == <<"/", "h", "e", "a", "l", "t", "h", "z">>
Str_private == <<"/", "p", "r", "i", "v", "a", "t", "e">>
Str_foo == <<"/", "f", "o", "o">>
Str_foobar == <<"/", "f", "o", "o", "b", "a", "r">>
Str_apix == <<"/", "a", "p", "i", "/", "x">>
Str_apiy == <<"/", "a", "p", "i", "/", "y">>

MethodGet == <<"G", "E", "T">>
MethodPost == <<"P", "O", "S", "T">>
MethodPut == <<"P", "U", "T">>
MethodDelete == <<"D", "E", "L", "E", "T", "E">>
MethodHead == <<"H", "E", "A", "D">>
MethodOptions == <<"O", "P", "T", "I", "O", "N", "S">>
MethodTrace == <<"T", "R", "A", "C", "E">>
MethodPatch == <<"P", "A", "T", "C", "H">>
MethodConnect == <<"C", "O", "N", "N", "E", "C", "T">>

HTTPMethods == {MethodGet, MethodPost, MethodPut, MethodDelete, MethodHead, MethodOptions, MethodTrace, MethodPatch, MethodConnect}

Allow == "ALLOW"
Deny == "DENY"

\* strings.ToUpper on one character (the letters the model's inputs use)
UpperChar(c) ==
    CASE c = "g" -> "G" [] c = "e" -> "E" [] c = "t" -> "T" [] c = "p" -> "P"
      [] c = "o" -> "O" [] c = "s" -> "S" [] c = "n" -> "N" [] c = "i" -> "I"
      [] OTHER -> c

ToUpper(s) == [k \in 1..Len(s) |-> UpperChar(s[k])]

-----------------------------------------------------------------------------
(* regexp: Compile and MatchString, for patterns made of literal           *)
(* characters, '.', '*', '^' and '$'                                       *)

\* regexp.Compile succeeds: '*' needs an argument and may not be nested, and
\* an opening parenthesis needs its closing one
RegexpCompiles(raw) ==
    /\ ~(Len(raw) > 0 /\ raw[1] = "*")
    /\ \A k \in 1..Len(raw) : ~(k > 1 /\ raw[k] = "*" /\ raw[k-1] = "*")
    /\ \A k \in 1..Len(raw) : raw[k] = "(" => \E m \in (k+1)..Len(raw) : raw[m] = ")"
    /\ \A k \in 1..Len(raw) : raw[k] = ")" => \E m \in 1..(k-1) : raw[m] = "("

RECURSIVE MatchHere(_, _, _, _)
\* does re from position i on match a prefix of s from position j on
MatchHere(re, i, s, j) ==
    IF i > Len(re) THEN TRUE
    ELSE IF i < Len(re) /\ re[i+1] = "*"
      THEN IF re[i] \in {"^", "$"}
             THEN MatchHere(re, i + 2, s, j)
             ELSE \E k \in j..(Len(s) + 1) :
                    /\ \A m \in j..(k-1) : re[i] = "." \/ re[i] = s[m]
                    /\ MatchHere(re, i + 2, s, k)
    ELSE IF re[i] = "^" THEN j = 1 /\ MatchHere(re, i + 1, s, j)
    ELSE IF re[i] = "$" THEN j = Len(s) + 1 /\ MatchHere(re, i + 1, s, j)
    ELSE /\ j <= Len(s)
         /\ (re[i] = "." \/ re[i] = s[j])
         /\ MatchHere(re, i + 1, s, j + 1)

\* Regexp.MatchString: the pattern matches somewhere in s
MatchString(re, s) == \E j \in 1..(Len(s) + 1) : MatchHere(re, 1, s, j)

-----------------------------------------------------------------------------
(* pkg/ip: networks and the resolution of the client address               *)

Addrs == {"10.4.5.6", "192.0.2.1"}

\* the addresses of the model that a parseable IP or CIDR string contains
NetAddrs(net) ==
    CASE net = "10.0.0.0/8" -> {"10.4.5.6"}
      [] net = "192.0.2.1" -> {"192.0.2.1"}
      [] net = "10.4.5.6/32" -> {"10.4.5.6"}
      [] net = "::1" -> {"::1"}
      [] OTHER -> {}

\* ip.ParseIPNet returns a network (not nil)
ParseIPNetOK(s) == s \in {"10.0.0.0/8", "192.0.2.1", "10.4.5.6/32", "::1"}

\* NetSet.Has
NetSetHas(nets, addr) == \E n \in nets : addr \in NetAddrs(n)

\* ip.GetClientIP(parser, req): an address, a nil address, or an error
IPNil == "<nil>"
IPErr == "<error>"
ClientIPs == Addrs \cup {IPNil, IPErr}

-----------------------------------------------------------------------------
(* Rule *)

\* a nil map, slice or *NetSet, and a non-nil one holding the set s
NilSet == [nil |-> TRUE, set |-> {}]
SetOf(s) == [nil |-> FALSE, set |-> s]

\* a nil []string argument, and a non-nil one
NilList == [nil |-> TRUE, list |-> <<>>]
ListOf(l) == [nil |-> FALSE, list |-> l]

Range(f) == {f[x] : x \in DOMAIN f}

\* the request paths of the model
Str_fooeqbar == <<"/", "f", "o", "o", "=", "b", "a", "r">>

Paths == {Str_healthz, Str_private, Str_foo, Str_foobar, Str_apix, Str_apiy, Str_fooeqbar}

\* a nil *PathRegex, and PathRegex{Raw, Compiled}: the compiled regex is
\* kept as the set of the model's paths it matches
NilPath == [nil |-> TRUE, Raw |-> <<>>, Compiled |-> {}]

regexpCompile(raw) == {p \in Paths : MatchString(raw, p)}

\* an error value: nil, or what the message of the error is made of
NoError == [kind |-> "nil", of |-> <<>>]
ErrorOf(kind, of) == [kind |-> kind, of |-> of]

\* buildPathRegex: the empty path gives a nil PathRegex
buildPathRegex(path) ==
    IF path = <<>> THEN [err |-> FALSE, msg |-> NoError, Path |-> NilPath]
    ELSE IF ~RegexpCompiles(path)
      THEN [err |-> TRUE, msg |-> ErrorOf("error compiling regex", path), Path |-> NilPath]
    ELSE [err |-> FALSE, msg |-> NoError,
          Path |-> [nil |-> FALSE, Raw |-> path, Compiled |-> regexpCompile(path)]]

buildMethodSet(methods) ==
    IF methods.nil THEN NilSet
    ELSE SetOf({ToUpper(m) : m \in Range(methods.list)})

\* ip.ParseIPNet returns nil
ParseFails(s) == ~ParseIPNetOK(s)

\* buildNetSet reporting only the first entry that did not parse
buildNetSetFirstFailure(ips) ==
    IF ips.nil THEN [err |-> FALSE, msg |-> NoError, IPs |-> NilSet]
    ELSE LET failed == SelectSeq(ips.list, ParseFails)
         IN  IF failed # <<>>
               THEN [err |-> TRUE,
                     msg |-> ErrorOf("could not parse trusted IP network(s)",
                                     <<failed[1]>>),
                     IPs |-> NilSet]
               ELSE [err |-> FALSE, msg |-> NoError, IPs |-> SetOf(Range(ips.list))]

\* buildNetSet: the entries that do not parse are collected in their order
buildNetSet(ips) ==
    IF ips.nil THEN [err |-> FALSE, msg |-> NoError, IPs |-> NilSet]
    ELSE LET failed == SelectSeq(ips.list, ParseFails)
         IN  IF failed # <<>>
               THEN [err |-> TRUE,
                     msg |-> ErrorOf("could not parse trusted IP network(s)", failed),
                     IPs |-> NilSet]
               ELSE [err |-> FALSE, msg |-> NoError, IPs |-> SetOf(Range(ips.list))]

NoRule == [ID |-> "", Policy |-> "", Path |-> NilPath, Methods |-> NilSet,
           IPs |-> NilSet, hits |-> 0]

NewRule(id, policy, path, methods, ips) ==
    LET pathRegex == buildPathRegex(path)
        netSet == buildNetSet(ips)
    IN  IF ~(policy = Allow \/ policy = Deny)
          THEN [err |-> TRUE, msg |-> ErrorOf("invalid policy type", policy),
                rule |-> NoRule]
        ELSE IF pathRegex.err THEN [err |-> TRUE, msg |-> pathRegex.msg, rule |-> NoRule]
        ELSE IF netSet.err THEN [err |-> TRUE, msg |-> netSet.msg, rule |-> NoRule]
        ELSE [err |-> FALSE, msg |-> NoError,
              rule |-> [ID |-> id, Policy |-> policy, Path |-> pathRegex.Path,
                        Methods |-> buildMethodSet(methods), IPs |-> netSet.IPs,
                        hits |-> 0]]

checkPath(rule, req) ==
    IF rule.Path.nil THEN TRUE ELSE req.Path \in rule.Path.Compiled

\* checkMethods taking an absent methods set to match no method
checkMethodsAbsentFails(rule, req) ==
    IF rule.Methods.nil THEN FALSE ELSE req.Method \in rule.Methods.set

checkMethods(rule, req) ==
    IF rule.Methods.nil THEN TRUE ELSE req.Method \in rule.Methods.set

\* checkIPs letting a request through when no client address was resolved
checkIPsUnresolvedPasses(rule, req) ==
    IF rule.IPs.nil THEN TRUE
    ELSE IF req.ClientIP = IPErr THEN FALSE
    ELSE IF req.ClientIP = IPNil THEN TRUE
    ELSE NetSetHas(rule.IPs.set, req.ClientIP)

checkIPs(rule, req) ==
    IF rule.IPs.nil THEN TRUE
    ELSE IF req.ClientIP = IPErr THEN FALSE
    ELSE IF req.ClientIP = IPNil THEN FALSE
    ELSE NetSetHas(rule.IPs.set, req.ClientIP)

\* Rule.Allow / Rule.Deny without the test of the policy
RuleCheckAnyPolicy(rule, req, verb) ==
    checkPath(rule, req) /\ checkMethods(rule, req) /\ checkIPs(rule, req)

\* the condition of Rule.Allow (verb = Allow) and of Rule.Deny (verb = Deny)
RuleCheck(rule, req, verb) ==
    rule.Policy = verb /\ checkPath(rule, req) /\ checkMethods(rule, req)
        /\ checkIPs(rule, req)

-----------------------------------------------------------------------------
(* The indices.  An engine is the record e of the engine's fields.         *)

PathName == "Path"
MethodsName == "Methods"
IPsName == "Network"

\* Index.Hits() of the index singleton with that name
IndexHits(e, name) ==
    CASE name = PathName -> e.pathIndex.hits
      [] name = MethodsName -> e.methodsIndex.hits
      [] name = IPsName -> e.ipsIndex.hits

\* the '$' taken off only when a '^' was
PathKeyAnchored(rawRegex) ==
    LET start == IF SubSeq(rawRegex, 1, 1) = <<"^">> THEN 1 ELSE 0
        len == Len(rawRegex)
        end == IF start = 1 /\ SubSeq(rawRegex, len, len) = <<"$">> THEN len - 1 ELSE len
    IN  SubSeq(rawRegex, start + 1, end)

\* PathIndex.IndexRule: the key is the raw regex without one leading '^' and
\* one trailing '$'
PathKey(rawRegex) ==
    LET start == IF SubSeq(rawRegex, 1, 1) = <<"^">> THEN 1 ELSE 0
        len == Len(rawRegex)
        end == IF SubSeq(rawRegex, len, len) = <<"$">> THEN len - 1 ELSE len
    IN  SubSeq(rawRegex, start + 1, end)

\* PathIndex.IndexRule(rule), rule being the one with handle h
PathIndexRule(e, h) ==
    LET rule == e.Rules[h]
        indexPath == PathKey(rule.Path.Raw)
        paths == e.pathIndex.paths
        old == IF indexPath \in DOMAIN paths THEN paths[indexPath] ELSE <<>>
    IN  IF rule.Path.nil THEN [ok |-> FALSE, e |-> e]
        ELSE [ok |-> TRUE,
              e |-> [e EXCEPT !.pathIndex.paths =
                        [k \in DOMAIN paths \cup {indexPath} |->
                            IF k = indexPath THEN Append(old, h) ELSE paths[k]]]]

\* MethodsIndex.IndexRule
MethodsIndexRule(e, h) ==
    LET rule == e.Rules[h]
    IN  IF rule.Methods.nil THEN [ok |-> FALSE, e |-> e]
        ELSE [ok |-> TRUE,
              e |-> [e EXCEPT !.methodsIndex.methods =
                        [m \in HTTPMethods |->
                            IF m \in rule.Methods.set THEN Append(@[m], h) ELSE @[m]]]]

\* IPsIndex.IndexRule
IPsIndexRule(e, h) ==
    LET rule == e.Rules[h]
    IN  IF rule.IPs.nil THEN [ok |-> FALSE, e |-> e]
        ELSE [ok |-> TRUE,
              e |-> [e EXCEPT !.ipsIndex.Rules = Append(@, h),
                              !.ipsIndex.trustedIPs = @ \cup rule.IPs.set]]

\* a candidate list is a slice of a bucket and shares its storage: it is named
\* by the bucket it comes from
NoBucket == [idx |-> "", key |-> <<>>]

Bucket(e, ref) ==
    CASE ref.idx = PathName -> e.pathIndex.paths[ref.key]
      [] ref.idx = MethodsName -> e.methodsIndex.methods[ref.key]
      [] ref.idx = IPsName -> e.ipsIndex.Rules
      [] OTHER -> <<>>

SetBucket(e, ref, l) ==
    CASE ref.idx = PathName -> [e EXCEPT !.pathIndex.paths[ref.key] = l]
      [] ref.idx = MethodsName -> [e EXCEPT !.methodsIndex.methods[ref.key] = l]
      [] ref.idx = IPsName -> [e EXCEPT !.ipsIndex.Rules = l]
      [] OTHER -> e

\* PathIndex.MatchRules: the bucket found (NoBucket for nil) and the index
\* with its hits counted
PathMatchRules(e, req) ==
    IF req.Path \in DOMAIN e.pathIndex.paths
      THEN [e |-> [e EXCEPT !.pathIndex.hits = @ + 1],
            ref |-> [idx |-> PathName, key |-> req.Path]]
      ELSE [e |-> e, ref |-> NoBucket]

\* the hit counted whether or not the method has candidates
MethodsMatchRulesCountsAlways(e, req) ==
    LET rules == IF req.Method \in HTTPMethods
                   THEN e.methodsIndex.methods[req.Method] ELSE <<>>
    IN  [e |-> [e EXCEPT !.methodsIndex.hits = @ + 1],
         ref |-> IF rules # <<>> THEN [idx |-> MethodsName, key |-> req.Method]
                                 ELSE NoBucket]

\* MethodsIndex.MatchRules
MethodsMatchRules(e, req) ==
    LET rules == IF req.Method \in HTTPMethods
                   THEN e.methodsIndex.methods[req.Method] ELSE <<>>
    IN  IF rules # <<>>
          THEN [e |-> [e EXCEPT !.methodsIndex.hits = @ + 1],
                ref |-> [idx |-> MethodsName, key |-> req.Method]]
          ELSE [e |-> e, ref |-> NoBucket]

\* IPsIndex.MatchRules
IPsMatchRules(e, req) ==
    IF req.ClientIP = IPErr THEN [e |-> e, ref |-> NoBucket]
    ELSE IF req.ClientIP = IPNil THEN [e |-> e, ref |-> NoBucket]
    ELSE IF NetSetHas(e.ipsIndex.trustedIPs, req.ClientIP)
      THEN [e |-> [e EXCEPT !.ipsIndex.hits = @ + 1],
            ref |-> [idx |-> IPsName, key |-> <<>>]]
      ELSE [e |-> e, ref |-> NoBucket]

\* idx.MatchRules(req) through the Index interface
MatchRules(e, name, req) ==
    CASE name = PathName -> PathMatchRules(e, req)
      [] name = MethodsName -> MethodsMatchRules(e, req)
      [] name = IPsName -> IPsMatchRules(e, req)

-----------------------------------------------------------------------------
(* RulesEngine *)

\* RulesEngine.optimize is set once more rules than this have been added
OptimizeThreshold == 5

NewRulesEngine ==
    [Rules |-> <<>>, Indices |-> <<>>, optimize |-> FALSE,
     pathIndex |-> [paths |-> <<>>, hits |-> 0],
     methodsIndex |-> [methods |-> [m \in HTTPMethods |-> <<>>], hits |-> 0],
     ipsIndex |-> [Rules |-> <<>>, trustedIPs |-> {}, hits |-> 0]]

\* the index appended without a look at the active ones
activateIndexAgain(e, name) == [e EXCEPT !.Indices = Append(@, name)]

activateIndex(e, name) ==
    IF \E k \in 1..Len(e.Indices) : e.Indices[k] = name THEN e
    ELSE [e EXCEPT !.Indices = Append(@, name)]

\* optimize set one rule too early
OptimizeAfterAddOffByOne(e) ==
    IF Len(e.Rules) >= OptimizeThreshold THEN TRUE ELSE e.optimize

\* the value of optimize after a rule was appended
OptimizeAfterAdd(e) == IF Len(e.Rules) > OptimizeThreshold THEN TRUE ELSE e.optimize

AddRuleTo(e, rule) ==
    LET e0 == [e EXCEPT !.Rules = Append(@, rule)]
        h == Len(e0.Rules)
        p == PathIndexRule(e0, h)
        e1 == IF p.ok THEN activateIndex(p.e, PathName) ELSE p.e
        m == MethodsIndexRule(e1, h)
        e2 == IF m.ok THEN activateIndex(m.e, MethodsName) ELSE m.e
        n == IPsIndexRule(e2, h)
        e3 == IF n.ok THEN activateIndex(n.e, IPsName) ELSE n.e
    IN  [e3 EXCEPT !.optimize = OptimizeAfterAdd(e3)]

\* a swap that overwrites the left element before saving it
SwapOverwrites(l, a, b) == [l EXCEPT ![a] = l[b]]

Swap(l, a, b) == [l EXCEPT ![a] = l[b], ![b] = l[a]]

\* the condition under which prioritizeIndices and prioritizeRule swap
\* neighbours: the left one has strictly fewer hits
ShouldSwap(leftHits, rightHits) == leftHits < rightHits

RECURSIVE prioritizeIndicesFrom(_, _)
prioritizeIndicesFrom(e, i) ==
    IF i > Len(e.Indices) THEN e
    ELSE IF ShouldSwap(IndexHits(e, e.Indices[i-1]), IndexHits(e, e.Indices[i]))
      THEN prioritizeIndicesFrom([e EXCEPT !.Indices = Swap(@, i - 1, i)], i + 1)
      ELSE prioritizeIndicesFrom(e, i + 1)

\* the pass that leaves the first pair of neighbours out
prioritizeIndicesFromSecond(e) == prioritizeIndicesFrom(e, 3)

prioritizeIndices(e) == prioritizeIndicesFrom(e, 2)

\* the matched rule stays where it is in its candidate list
prioritizeRuleOmitted(e, ref, i) == e

\* the neighbours swapped also when their hits are equal
prioritizeRuleOnEqual(e, ref, i) ==
    LET rules == Bucket(e, ref)
    IN  IF i > 1 /\ e.Rules[rules[i-1]].hits <= e.Rules[rules[i]].hits
          THEN SetBucket(e, ref, Swap(rules, i - 1, i))
          ELSE e

\* prioritizeRule(rules, i) on the candidate list of bucket ref, i counted from 1
prioritizeRule(e, ref, i) ==
    LET rules == Bucket(e, ref)
    IN  IF i > 1 /\ ShouldSwap(e.Rules[rules[i-1]].hits, e.Rules[rules[i]].hits)
          THEN SetBucket(e, ref, Swap(rules, i - 1, i))
          ELSE e

\* hits++ on the first rule of the list instead of the rule that matched
RuleHitFirst(e, h) == [e EXCEPT !.Rules[1].hits = @ + 1]

\* Rule.Allow / Rule.Deny on the rule with handle h: hits++ on a match
RuleHit(e, h) == [e EXCEPT !.Rules[h].hits = @ + 1]

\* what a call of check returns, and how it got there: the rule that matched
\* (0: none), the place it was found in, and the number of checker calls
Outcome(e, result, rule, via, evals) ==
    [e |-> e, result |-> result, rule |-> rule, via |-> via, evals |-> evals]

RECURSIVE linearScanToEnd(_, _, _, _)
\* the loop of check when optimize is false, going on after a match
linearScanToEnd(e, req, verb, k) ==
    IF k > Len(e.Rules) THEN Outcome(e, FALSE, 0, "none", k - 1)
    ELSE IF RuleCheck(e.Rules[k], req, verb)
      THEN LET rest == linearScanToEnd(RuleHit(e, k), req, verb, k + 1)
           IN  Outcome(rest.e, TRUE, k, "linear", rest.evals)
      ELSE linearScanToEnd(e, req, verb, k + 1)

RECURSIVE linearScan(_, _, _, _)
\* the loop of check when optimize is false, from rule k on
linearScan(e, req, verb, k) ==
    IF k > Len(e.Rules) THEN Outcome(e, FALSE, 0, "none", k - 1)
    ELSE IF RuleCheck(e.Rules[k], req, verb)
      THEN Outcome(RuleHit(e, k), TRUE, k, "linear", k)
      ELSE linearScan(e, req, verb, k + 1)

\* check without the sweep over the rules the indices did not yield
fallbackSweepOmitted(e, req, verb, k, checked, evals) ==
    Outcome(e, FALSE, 0, "none", evals)

RECURSIVE fallbackSweepBubbles(_, _, _, _, _, _)
\* the sweep that moves the matched rule one place forward in the global list
fallbackSweepBubbles(e, req, verb, k, checked, evals) ==
    IF k > Len(e.Rules) THEN Outcome(e, FALSE, 0, "none", evals)
    ELSE IF e.Rules[k].ID \in checked
      THEN fallbackSweepBubbles(e, req, verb, k + 1, checked, evals)
    ELSE IF RuleCheck(e.Rules[k], req, verb)
      THEN LET hit == RuleHit(e, k)
           IN  Outcome(IF k > 1 /\ ShouldSwap(hit.Rules[k - 1].hits, hit.Rules[k].hits)
                         THEN [hit EXCEPT !.Rules = Swap(@, k - 1, k)] ELSE hit,
                       TRUE, k, "fallback", evals + 1)
      ELSE fallbackSweepBubbles(e, req, verb, k + 1, checked, evals + 1)

RECURSIVE fallbackSweep(_, _, _, _, _, _)
\* the loop of check over the rules not yet checked, from rule k on
fallbackSweep(e, req, verb, k, checked, evals) ==
    IF k > Len(e.Rules) THEN Outcome(e, FALSE, 0, "none", evals)
    ELSE IF e.Rules[k].ID \in checked
      THEN fallbackSweep(e, req, verb, k + 1, checked, evals)
    ELSE IF RuleCheck(e.Rules[k], req, verb)
      THEN Outcome(RuleHit(e, k), TRUE, k, "fallback", evals + 1)
      ELSE fallbackSweep(e, req, verb, k + 1, checked, evals + 1)

RECURSIVE indexLoop(_, _, _, _, _, _)
RECURSIVE candidateLoop(_, _, _, _, _, _, _, _)
RECURSIVE candidateLoopForgets(_, _, _, _, _, _, _, _)
\* the loop over the candidates that does not record the rules it checked
candidateLoopForgets(e, req, verb, x, ref, i, checked, evals) ==
    LET indexRules == Bucket(e, ref)
    IN  IF i > Len(indexRules) THEN indexLoop(e, req, verb, x + 1, checked, evals)
        ELSE LET h == indexRules[i]
             IN  IF e.Rules[h].ID \in checked
                   THEN candidateLoopForgets(e, req, verb, x, ref, i + 1, checked, evals)
                 ELSE IF RuleCheck(e.Rules[h], req, verb)
                   THEN Outcome(prioritizeRule(RuleHit(e, h), ref, i), TRUE, h,
                                e.Indices[x], evals + 1)
                   ELSE candidateLoopForgets(e, req, verb, x, ref, i + 1,
                                             checked, evals + 1)

\* the loop over the candidates of index number x, from candidate i on
candidateLoop(e, req, verb, x, ref, i, checked, evals) ==
    LET indexRules == Bucket(e, ref)
    IN  IF i > Len(indexRules) THEN indexLoop(e, req, verb, x + 1, checked, evals)
        ELSE LET h == indexRules[i]
             IN  IF e.Rules[h].ID \in checked
                   THEN candidateLoop(e, req, verb, x, ref, i + 1, checked, evals)
                 ELSE IF RuleCheck(e.Rules[h], req, verb)
                   THEN Outcome(prioritizeRule(RuleHit(e, h), ref, i), TRUE, h,
                                e.Indices[x], evals + 1)
                   ELSE candidateLoop(e, req, verb, x, ref, i + 1,
                                      checked \cup {e.Rules[h].ID}, evals + 1)

\* the loop over the active indices, from index number x on
indexLoop(e, req, verb, x, checked, evals) ==
    IF x > Len(e.Indices) THEN fallbackSweep(e, req, verb, 1, checked, evals)
    ELSE LET m == MatchRules(e, e.Indices[x], req)
         IN  candidateLoop(m.e, req, verb, x, m.ref, 1, checked, evals)

\* RulesEngine.check; reorder is the outcome of rand.Intn(100) == 1
check(e, req, verb, reorder) ==
    IF ~e.optimize THEN linearScan(e, req, verb, 1)
    ELSE indexLoop(IF reorder THEN prioritizeIndices(e) ELSE e, req, verb, 1, {}, 0)

-----------------------------------------------------------------------------
(* Inputs of the general specification *)

\* the id the validation layer gives the rule of the i-th configured route
\* ("route-%d")
RouteID(i) == <<"route", i>>

Str_priv == <<"/", "p", "r", "i", "v">>

\* the configured routes, in the order of the configuration: the arguments
\* NewRule is called with.  A route of the configuration is added or left out.
RuleArgs ==
    << [policy |-> Allow, path |-> <<>>, methods |-> NilList,
        ips |-> ListOf(<<"10.0.0.0/8">>)],
       [policy |-> Allow, path |-> <<"^">> \o Str_foo \o <<"$">>,
        methods |-> ListOf(<< <<"g", "e", "t">> >>), ips |-> NilList],
       [policy |-> Allow, path |-> <<"^">> \o Str_foo \o <<"$">>,
        methods |-> ListOf(<<MethodPost>>), ips |-> NilList],
       [policy |-> Deny, path |-> <<"^">> \o Str_priv, methods |-> NilList,
        ips |-> NilList],
       [policy |-> Allow, path |-> Str_healthz, methods |-> NilList,
        ips |-> NilList],
       [policy |-> Deny, path |-> Str_foo, methods |-> NilList,
        ips |-> ListOf(<<"192.0.2.1">>)],
       [policy |-> Deny, path |-> <<>>, methods |-> ListOf(<<MethodPost>>),
        ips |-> NilList],
       [policy |-> Allow, path |-> <<>>, methods |-> NilList, ips |-> NilList] >>

Requests ==
    [Path : {Str_healthz, Str_private, Str_foo},
     Method : {MethodGet, MethodPost},
     ClientIP : ClientIPs]

NoReq == [Path |-> <<>>, Method |-> <<>>, ClientIP |-> IPNil]

Workers == {"w1", "w2"}

\* a worker between two calls; in a call, its position in check and the
\* locals of check, prioritizeIndices and prioritizeRule
IdleWorker ==
    [pc |-> "idle", req |-> NoReq, verb |-> "", i |-> 0, x |-> 0, idx |-> "",
     ref |-> NoBucket, j |-> 0, h |-> 0, checked |-> {}, via |-> "none",
     left |-> 0, right |-> 0, t1 |-> 0, t2 |-> 0]

-----------------------------------------------------------------------------
(* The values of what the rules engine does not touch, before use *)

\* no csrf, no cookie, no options.Cookie
NoToken == [nil |-> TRUE, OAuthState |-> <<>>, OIDCNonce |-> <<>>]
NoCookie == [nil |-> TRUE, Name |-> <<>>, Value |-> <<>>]
NoCookieOpts == [Name |-> <<>>, Secret |-> [n |-> 0, pad |-> 0, b64 |-> TRUE], Expire |-> 0]

\* a sessions.SessionState as the callback gets it: no nonce yet
NewSession == [Nonce |-> <<>>, Email |-> "user@example.com", User |-> "user"]

\* allowlist.NewIPs
NewIPs == [rawIPs |-> <<>>, trustedIPs |-> {}]

\* allowlist.NewRoutes
NewRoutes == [global |-> {}, methods |-> [m \in {} |-> {}]]

RestInit ==
    /\ entries = <<>>
    /\ msgs = <<>>
    /\ cookieOpts = NoCookieOpts
    /\ token = NoToken
    /\ jar = NoCookie
    /\ clock = 0
    /\ loaded = NoToken
    /\ session = NewSession
    /\ routes = NewRoutes
    /\ allowIPs = NewIPs

-----------------------------------------------------------------------------
(* The state machine *)

Engine ==
    [Rules |-> Rules, Indices |-> Indices, optimize |-> optimize,
     pathIndex |-> pathIndex, methodsIndex |-> methodsIndex, ipsIndex |-> ipsIndex]

\* the engine's fields become those of e
EngineBecomes(e) ==
    /\ Rules' = e.Rules
    /\ Indices' = e.Indices
    /\ optimize' = e.optimize
    /\ pathIndex' = e.pathIndex
    /\ methodsIndex' = e.methodsIndex
    /\ ipsIndex' = e.ipsIndex

NoCall ==
    [op |-> "none", req |-> NoReq, result |-> FALSE, optimized |-> FALSE,
     rule |-> 0, via |-> "none", evals |-> 0]

Init ==
    /\ Rules = NewRulesEngine.Rules
    /\ Indices = NewRulesEngine.Indices
    /\ optimize = NewRulesEngine.optimize
    /\ pathIndex = NewRulesEngine.pathIndex
    /\ methodsIndex = NewRulesEngine.methodsIndex
    /\ ipsIndex = NewRulesEngine.ipsIndex
    /\ calls = 0
    /\ last = NoCall
    /\ wk = [w \in Workers |-> IdleWorker]
    /\ RestInit

\* RulesEngine.AddRule(rule)
AddRule(rule) ==
    /\ Len(Rules) < MaxRules
    /\ EngineBecomes(AddRuleTo(Engine, rule))
    /\ last' = [NoCall EXCEPT !.op = "AddRule"]
    /\ UNCHANGED <<calls, wk, restVars>>

\* RulesEngine.Allow(req) (verb = Allow) and RulesEngine.Deny(req) (verb = Deny)
Call(verb, req, reorder) ==
    /\ calls < MaxCalls
    /\ LET out == check(Engine, req, verb, reorder)
       IN  /\ EngineBecomes(out.e)
           /\ last' = [op |-> verb, req |-> req, result |-> out.result,
                       optimized |-> optimize,
                       rule |-> out.rule, via |-> out.via, evals |-> out.evals]
    /\ calls' = calls + 1
    /\ UNCHANGED <<wk, restVars>>

\* the position in the configuration of the route the last rule came from
LastRoute == IF Rules = <<>> THEN 0 ELSE Rules[Len(Rules)].ID[2] + 1

EngineAddRule ==
    \E i \in (LastRoute + 1)..Len(RuleArgs) :
        LET a == RuleArgs[i]
            r == NewRule(RouteID(i - 1), a.policy, a.path, a.methods, a.ips)
        IN  ~r.err /\ AddRule(r.rule)

\* rand.Intn(100) == 1 is drawn only when optimize is set
Reorders == IF optimize THEN BOOLEAN ELSE {FALSE}

EngineAllow == \E req \in Requests, reorder \in Reorders : Call(Allow, req, reorder)

EngineDeny == \E req \in Requests, reorder \in Reorders : Call(Deny, req, reorder)

Next == EngineAddRule \/ EngineAllow \/ EngineDeny

Spec == Init /\ [][Next]_vars

-----------------------------------------------------------------------------
(* Scenario S4: 20 rules, the 17th being ALLOW path=/api/x method=GET and   *)
(* the only one that allows GET /api/x, then GET /api/x again and again     *)

\* the rule as it was added: its fields without the hits counted since
Added(rule) == [rule EXCEPT !.hits = 0]

S4TargetArgs ==
    [policy |-> Allow, path |-> Str_apix, methods |-> ListOf(<<MethodGet>>),
     ips |-> NilList]

\* the other rules: none of them allows GET /api/x
S4OtherArgs ==
    { [policy |-> Allow, path |-> <<"^">> \o Str_apix \o <<"$">>,
       methods |-> ListOf(<<MethodPost>>), ips |-> NilList],
      [policy |-> Allow, path |-> Str_apiy, methods |-> ListOf(<<MethodGet>>),
       ips |-> NilList],
      [policy |-> Deny, path |-> <<>>, methods |-> ListOf(<<MethodGet>>),
       ips |-> NilList],
      [policy |-> Allow, path |-> Str_apiy, methods |-> NilList,
       ips |-> ListOf(<<"10.0.0.0/8">>)] }

S4Requests ==
    [Path : {Str_apix}, Method : {MethodGet}, ClientIP : {"10.4.5.6", IPErr}]

\* the target rule is added as rule number S4Target
S4AddTarget ==
    /\ Len(Rules) + 1 = S4Target
    /\ LET r == NewRule(RouteID(Len(Rules)), S4TargetArgs.policy, S4TargetArgs.path,
                        S4TargetArgs.methods, S4TargetArgs.ips)
       IN  /\ ~r.err
           /\ EngineBecomes(AddRuleTo(Engine, r.rule))
    /\ last' = [NoCall EXCEPT !.op = "AddRule"]
    /\ UNCHANGED <<calls, wk, restVars>>

\* another rule is added: any of the other rules for the first S4Period
\* rules, and from then on a rule with the fields of the rule S4Period
\* places before it
S4AddOther ==
    /\ Len(Rules) < S4Rules
    /\ Len(Rules) + 1 # S4Target
    /\ \E a \in S4OtherArgs :
          LET n == Len(Rules) + 1
              r == NewRule(RouteID(n - 1), a.policy, a.path, a.methods, a.ips)
              \* the place the fields repeat from, the target's place skipped
              from == IF n - S4Period = S4Target THEN n - 2 * S4Period ELSE n - S4Period
          IN  /\ ~r.err
              /\ n > S4Period =>
                    Added(r.rule) = [Added(Rules[from]) EXCEPT !.ID = r.rule.ID]
              /\ EngineBecomes(AddRuleTo(Engine, r.rule))
    /\ last' = [NoCall EXCEPT !.op = "AddRule"]
    /\ UNCHANGED <<calls, wk, restVars>>

\* one more GET /api/x
S4Request ==
    /\ Len(Rules) = S4Rules
    /\ calls < S4MaxCalls
    /\ \E req \in S4Requests, reorder \in BOOLEAN :
          LET out == check(Engine, req, Allow, reorder)
          IN  /\ EngineBecomes(out.e)
              /\ last' = [op |-> Allow, req |-> req, result |-> out.result,
                          optimized |-> optimize, rule |-> out.rule,
                          via |-> out.via, evals |-> out.evals]
    /\ calls' = calls + 1
    /\ UNCHANGED <<wk, restVars>>

NextS4 == S4AddTarget \/ S4AddOther \/ S4Request

SpecS4 == Init /\ [][NextS4]_vars

-----------------------------------------------------------------------------
(* Concurrent evaluation: workers run Allow and Deny on one engine.  Each   *)
(* step of a worker is one read or one write of the engine's mutable state  *)
(* (an element of Indices, an element of a candidate list, a hits counter)  *)
(* with the local computation that follows it.  The rules are added before  *)
(* the first call.                                                         *)

ConcRuleArgs ==
    << [policy |-> Allow, path |-> <<>>, methods |-> NilList,
        ips |-> ListOf(<<"10.0.0.0/8">>)],
       [policy |-> Deny, path |-> <<"^">> \o Str_foo \o <<"$">>,
        methods |-> ListOf(<<MethodGet>>), ips |-> NilList],
       [policy |-> Allow, path |-> <<"^">> \o Str_foo \o <<"$">>,
        methods |-> ListOf(<<MethodGet>>), ips |-> NilList],
       [policy |-> Allow, path |-> <<"^">> \o Str_foo \o <<"$">>,
        methods |-> NilList, ips |-> NilList],
       [policy |-> Deny, path |-> <<"^">> \o Str_priv, methods |-> NilList,
        ips |-> NilList],
       [policy |-> Allow, path |-> Str_healthz, methods |-> NilList,
        ips |-> NilList] >>

\* the calls the workers make: the verb and the request
ConcCalls ==
    { [verb |-> Allow, req |-> [Path |-> Str_foo, Method |-> MethodPost, ClientIP |-> IPErr]],
      [verb |-> Deny, req |-> [Path |-> Str_private, Method |-> MethodGet, ClientIP |-> "10.4.5.6"]],
      [verb |-> Deny, req |-> [Path |-> Str_foo, Method |-> MethodPost, ClientIP |-> IPErr]] }

ConcAddRule ==
    /\ Len(Rules) < Len(ConcRuleArgs)
    /\ LET a == ConcRuleArgs[Len(Rules) + 1]
           r == NewRule(RouteID(Len(Rules)), a.policy, a.path, a.methods, a.ips)
       IN  /\ ~r.err
           /\ EngineBecomes(AddRuleTo(Engine, r.rule))
    /\ last' = [NoCall EXCEPT !.op = "AddRule"]
    /\ UNCHANGED <<calls, wk, restVars>>

\* worker w goes on with the locals l
Goes(w, l) == wk' = [wk EXCEPT ![w] = l] /\ UNCHANGED restVars

\* the place after iteration i of the loop of prioritizeIndices; the
\* temporaries of the iteration are dead
AfterPrioritize(l) ==
    LET n == [l EXCEPT !.idx = "", !.left = 0, !.right = 0, !.t1 = 0, !.t2 = 0]
    IN  IF l.i + 1 > Len(Indices) THEN [n EXCEPT !.pc = "index", !.i = 0]
        ELSE [n EXCEPT !.pc = "pi_left", !.i = l.i + 1]

\* check returns result to the caller of worker w
Returns(w, result) ==
    /\ wk' = [wk EXCEPT ![w] = IdleWorker]
    /\ UNCHANGED restVars
    /\ last' = [op |-> wk[w].verb, req |-> wk[w].req, result |-> result,
                optimized |-> TRUE, rule |-> IF result THEN wk[w].h ELSE 0,
                via |-> IF result THEN wk[w].via ELSE "none", evals |-> 0]

\* the hits counter of the index with that name becomes n
SetIndexHits(name, n) ==
    /\ pathIndex' = IF name = PathName THEN [pathIndex EXCEPT !.hits = n] ELSE pathIndex
    /\ methodsIndex' =
          IF name = MethodsName THEN [methodsIndex EXCEPT !.hits = n] ELSE methodsIndex
    /\ ipsIndex' = IF name = IPsName THEN [ipsIndex EXCEPT !.hits = n] ELSE ipsIndex

\* element k of the candidate list of bucket ref becomes the rule h
SetCandidate(ref, k, h) ==
    EngineBecomes(SetBucket(Engine, ref, [Bucket(Engine, ref) EXCEPT ![k] = h]))

\* Allow or Deny is called: check reads optimize and draws rand.Intn(100)
WStart(w) ==
    /\ wk[w].pc = "idle"
    /\ Len(Rules) = Len(ConcRuleArgs)
    /\ optimize
    /\ calls < MaxConcCalls
    /\ \E c \in ConcCalls, reorder \in BOOLEAN :
          Goes(w, [IdleWorker EXCEPT
                      !.pc = IF reorder /\ Len(Indices) > 1 THEN "pi_left" ELSE "index",
                      !.req = c.req, !.verb = c.verb, !.i = 2, !.x = 1])
    /\ calls' = calls + 1
    /\ UNCHANGED <<engineVars, last>>

\* prioritizeIndices: e.Indices[i-1] is read
WPiLeft(w) ==
    /\ wk[w].pc = "pi_left"
    /\ Goes(w, [wk[w] EXCEPT !.pc = "pi_lefthits", !.idx = Indices[wk[w].i - 1]])
    /\ UNCHANGED <<engineVars, calls, last>>

\* prioritizeIndices: its Hits() is read
WPiLeftHits(w) ==
    /\ wk[w].pc = "pi_lefthits"
    /\ Goes(w, [wk[w] EXCEPT !.pc = "pi_right", !.left = IndexHits(Engine, wk[w].idx)])
    /\ UNCHANGED <<engineVars, calls, last>>

\* prioritizeIndices: e.Indices[i] is read
WPiRight(w) ==
    /\ wk[w].pc = "pi_right"
    /\ Goes(w, [wk[w] EXCEPT !.pc = "pi_righthits", !.idx = Indices[wk[w].i]])
    /\ UNCHANGED <<engineVars, calls, last>>

\* prioritizeIndices: its Hits() is read and compared
WPiRightHits(w) ==
    /\ wk[w].pc = "pi_righthits"
    /\ LET l == [wk[w] EXCEPT !.right = IndexHits(Engine, wk[w].idx)]
       IN  IF ShouldSwap(l.left, l.right)
             THEN Goes(w, [l EXCEPT !.pc = "pi_rd1"])
             ELSE Goes(w, AfterPrioritize(l))
    /\ UNCHANGED <<engineVars, calls, last>>

\* the swap of prioritizeIndices: e.Indices[i] is read
WPiRd1(w) ==
    /\ wk[w].pc = "pi_rd1"
    /\ Goes(w, [wk[w] EXCEPT !.pc = "pi_rd2", !.t1 = Indices[wk[w].i]])
    /\ UNCHANGED <<engineVars, calls, last>>

\* the swap of prioritizeIndices: e.Indices[i-1] is read
WPiRd2(w) ==
    /\ wk[w].pc = "pi_rd2"
    /\ Goes(w, [wk[w] EXCEPT !.pc = "pi_wr1", !.t2 = Indices[wk[w].i - 1]])
    /\ UNCHANGED <<engineVars, calls, last>>

\* the swap of prioritizeIndices: e.Indices[i-1] is written
WPiWr1(w) ==
    /\ wk[w].pc = "pi_wr1"
    /\ Indices' = [Indices EXCEPT ![wk[w].i - 1] = wk[w].t1]
    /\ Goes(w, [wk[w] EXCEPT !.pc = "pi_wr2"])
    /\ UNCHANGED <<Rules, optimize, pathIndex, methodsIndex, ipsIndex, calls, last>>

\* the swap of prioritizeIndices: e.Indices[i] is written
WPiWr2(w) ==
    /\ wk[w].pc = "pi_wr2"
    /\ Indices' = [Indices EXCEPT ![wk[w].i] = wk[w].t2]
    /\ Goes(w, AfterPrioritize(wk[w]))
    /\ UNCHANGED <<Rules, optimize, pathIndex, methodsIndex, ipsIndex, calls, last>>

\* the loop over e.Indices: element x is read and its MatchRules looks the
\* request up
WIndex(w) ==
    /\ wk[w].pc = "index"
    /\ IF wk[w].x > Len(Indices)
         THEN Goes(w, [wk[w] EXCEPT !.pc = "sweep", !.x = 0])
         ELSE LET name == Indices[wk[w].x]
                  m == MatchRules(Engine, name, wk[w].req)
              IN  IF m.ref = NoBucket
                    THEN Goes(w, [wk[w] EXCEPT !.x = @ + 1])
                    ELSE Goes(w, [wk[w] EXCEPT !.pc = "mr_rd", !.idx = name, !.ref = m.ref])
    /\ UNCHANGED <<engineVars, calls, last>>

\* MatchRules, hits++: the counter is read
WMrRd(w) ==
    /\ wk[w].pc = "mr_rd"
    /\ Goes(w, [wk[w] EXCEPT !.pc = "mr_wr", !.left = IndexHits(Engine, wk[w].idx)])
    /\ UNCHANGED <<engineVars, calls, last>>

\* MatchRules, hits++: the counter is written
WMrWr(w) ==
    /\ wk[w].pc = "mr_wr"
    /\ SetIndexHits(wk[w].idx, wk[w].left + 1)
    /\ Goes(w, [wk[w] EXCEPT !.pc = "cand", !.j = 1, !.left = 0])
    /\ UNCHANGED <<Rules, Indices, optimize, calls, last>>

\* the loop over indexRules: element j is read and checked
WCand(w) ==
    /\ wk[w].pc = "cand"
    /\ LET indexRules == Bucket(Engine, wk[w].ref)
       IN  IF wk[w].j > Len(indexRules)
             THEN Goes(w, [wk[w] EXCEPT !.pc = "index", !.x = @ + 1, !.idx = "",
                                        !.ref = NoBucket, !.j = 0])
             ELSE LET h == indexRules[wk[w].j]
                  IN  IF Rules[h].ID \in wk[w].checked
                        THEN Goes(w, [wk[w] EXCEPT !.j = @ + 1])
                      ELSE IF RuleCheck(Rules[h], wk[w].req, wk[w].verb)
                        THEN Goes(w, [wk[w] EXCEPT !.pc = "hit_rd", !.h = h,
                                                   !.via = wk[w].idx])
                        ELSE Goes(w, [wk[w] EXCEPT !.j = @ + 1,
                                                   !.checked = @ \cup {Rules[h].ID}])
    /\ UNCHANGED <<engineVars, calls, last>>

\* the sweep over e.Rules, which no call writes: the first rule not checked
\* that the checker accepts
WSweep(w) ==
    /\ wk[w].pc = "sweep"
    /\ LET out == fallbackSweep(Engine, wk[w].req, wk[w].verb, 1, wk[w].checked, 0)
       IN  IF out.result
             THEN /\ Goes(w, [wk[w] EXCEPT !.pc = "hit_rd", !.h = out.rule,
                                           !.via = "fallback"])
                  /\ UNCHANGED last
             ELSE Returns(w, FALSE)
    /\ UNCHANGED <<engineVars, calls>>

\* Rule.Allow / Rule.Deny, hits++: the counter is read
WHitRd(w) ==
    /\ wk[w].pc = "hit_rd"
    /\ Goes(w, [wk[w] EXCEPT !.pc = "hit_wr", !.left = Rules[wk[w].h].hits])
    /\ UNCHANGED <<engineVars, calls, last>>

\* Rule.Allow / Rule.Deny, hits++: the counter is written; check returns
\* true, after prioritizeRule if the rule came from an index
WHitWr(w) ==
    /\ wk[w].pc = "hit_wr"
    /\ Rules' = [Rules EXCEPT ![wk[w].h].hits = wk[w].left + 1]
    /\ IF wk[w].via # "fallback" /\ wk[w].j > 1
         THEN Goes(w, [wk[w] EXCEPT !.pc = "pr_left", !.left = 0]) /\ UNCHANGED last
         ELSE Returns(w, TRUE)
    /\ UNCHANGED <<Indices, optimize, pathIndex, methodsIndex, ipsIndex, calls>>

\* prioritizeRule: rules[i-1] is read
WPrLeft(w) ==
    /\ wk[w].pc = "pr_left"
    /\ Goes(w, [wk[w] EXCEPT !.pc = "pr_lefthits",
                             !.t1 = Bucket(Engine, wk[w].ref)[wk[w].j - 1]])
    /\ UNCHANGED <<engineVars, calls, last>>

\* prioritizeRule: its Hits() is read
WPrLeftHits(w) ==
    /\ wk[w].pc = "pr_lefthits"
    /\ Goes(w, [wk[w] EXCEPT !.pc = "pr_right", !.left = Rules[wk[w].t1].hits])
    /\ UNCHANGED <<engineVars, calls, last>>

\* prioritizeRule: rules[i] is read
WPrRight(w) ==
    /\ wk[w].pc = "pr_right"
    /\ Goes(w, [wk[w] EXCEPT !.pc = "pr_righthits",
                             !.t2 = Bucket(Engine, wk[w].ref)[wk[w].j]])
    /\ UNCHANGED <<engineVars, calls, last>>

\* prioritizeRule: its Hits() is read and compared
WPrRightHits(w) ==
    /\ wk[w].pc = "pr_righthits"
    /\ LET l == [wk[w] EXCEPT !.right = Rules[wk[w].t2].hits]
       IN  IF ShouldSwap(l.left, l.right)
             THEN Goes(w, [l EXCEPT !.pc = "pr_rd1"]) /\ UNCHANGED last
             ELSE Returns(w, TRUE)
    /\ UNCHANGED <<engineVars, calls>>

\* the swap of prioritizeRule: rules[i] is read
WPrRd1(w) ==
    /\ wk[w].pc = "pr_rd1"
    /\ Goes(w, [wk[w] EXCEPT !.pc = "pr_rd2", !.t1 = Bucket(Engine, wk[w].ref)[wk[w].j]])
    /\ UNCHANGED <<engineVars, calls, last>>

\* the swap of prioritizeRule: rules[i-1] is read
WPrRd2(w) ==
    /\ wk[w].pc = "pr_rd2"
    /\ Goes(w, [wk[w] EXCEPT !.pc = "pr_wr1",
                             !.t2 = Bucket(Engine, wk[w].ref)[wk[w].j - 1]])
    /\ UNCHANGED <<engineVars, calls, last>>

\* the swap of prioritizeRule: rules[i-1] is written
WPrWr1(w) ==
    /\ wk[w].pc = "pr_wr1"
    /\ SetCandidate(wk[w].ref, wk[w].j - 1, wk[w].t1)
    /\ Goes(w, [wk[w] EXCEPT !.pc = "pr_wr2"])
    /\ UNCHANGED <<calls, last>>

\* the swap of prioritizeRule: rules[i] is written; check returns true
WPrWr2(w) ==
    /\ wk[w].pc = "pr_wr2"
    /\ SetCandidate(wk[w].ref, wk[w].j, wk[w].t2)
    /\ Returns(w, TRUE)
    /\ UNCHANGED calls

WorkerStep(w) ==
    \/ WStart(w)
    \/ WPiLeft(w) \/ WPiLeftHits(w) \/ WPiRight(w) \/ WPiRightHits(w)
    \/ WPiRd1(w) \/ WPiRd2(w) \/ WPiWr1(w) \/ WPiWr2(w)
    \/ WIndex(w) \/ WMrRd(w) \/ WMrWr(w) \/ WCand(w) \/ WSweep(w)
    \/ WHitRd(w) \/ WHitWr(w)
    \/ WPrLeft(w) \/ WPrLeftHits(w) \/ WPrRight(w) \/ WPrRightHits(w)
    \/ WPrRd1(w) \/ WPrRd2(w) \/ WPrWr1(w) \/ WPrWr2(w)

NextConc == ConcAddRule \/ \E w \in Workers : WorkerStep(w)

SpecConc == Init /\ [][NextConc]_vars

-----------------------------------------------------------------------------
(* Validation: every function of validateAuthorization builds its rules     *)
(* the same way: rule, err := NewRule(...); on an error the message is      *)
(* appended to msgs, otherwise the rule is added to the engine.  The        *)
(* arguments are drawn from all that NewRule can be called with.            *)

NewRuleArgs ==
    [policy : {Allow, Deny, "allow"},
     path : {<<>>, <<"^">> \o Str_foo \o <<"$">>, <<"*">>},
     methods : {NilList, ListOf(<<>>), ListOf(<< <<"g", "e", "t">> >>)},
     ips : {NilList, ListOf(<<>>), ListOf(<<"10.0.0.0/8">>),
            ListOf(<<"bogus", "10.0.0.0/8", "300.1.1.1">>)}]

\* one entry of the configuration is validated
ValidateEntry ==
    /\ Len(entries) < MaxEntries
    /\ calls = 0
    /\ \E a \in NewRuleArgs :
          LET r == NewRule(RouteID(Len(entries)), a.policy, a.path, a.methods, a.ips)
          IN  /\ entries' = Append(entries, a)
              /\ last' = [op |-> "NewRule", args |-> a, err |-> r.err, msg |-> r.msg,
                          rule |-> r.rule]
              /\ IF r.err
                   THEN msgs' = Append(msgs, r.msg) /\ UNCHANGED engineVars
                   ELSE msgs' = msgs /\ EngineBecomes(AddRuleTo(Engine, r.rule))
    /\ UNCHANGED <<calls, wk, cookieOpts, token, jar, clock, loaded, session, routes, allowIPs>>

\* Allow or Deny on the engine the validation has built
EntryCall(verb) ==
    /\ calls < MaxEntryCalls
    /\ \E req \in Requests, reorder \in Reorders :
          LET out == check(Engine, req, verb, reorder)
          IN  /\ EngineBecomes(out.e)
              /\ last' = [op |-> verb, req |-> req, result |-> out.result,
                          optimized |-> optimize, rule |-> out.rule,
                          via |-> out.via, evals |-> out.evals]
    /\ calls' = calls + 1
    /\ UNCHANGED <<wk, restVars>>

EntryAllow == EntryCall(Allow)

EntryDeny == EntryCall(Deny)

NextRule == ValidateEntry \/ EntryAllow \/ EntryDeny

SpecRule == Init /\ [][NextRule]_vars

-----------------------------------------------------------------------------
(* The CSRF token and its cookie (pkg/cookies/csrf.go).                    *)
(*                                                                         *)
(* A secret is known by its length in characters n, the number pad of '='  *)
(* characters it ends with, and whether its other characters all belong to *)
(* the base64-url alphabet.  Byte strings that are only measured have the  *)
(* same shape.  A nonce is a short sequence of bytes.                      *)

MaxClock == 3

Nonces == {<<1>>, <<2>>}
CookieNames == {<<"a">>, <<"b">>}
Expires == {1}
Str_csrf == <<"_", "c", "s", "r", "f">>

Bytes(n, pad, b64) == [n |-> n, pad |-> pad, b64 |-> b64]
Secrets ==
    {Bytes(0, 0, TRUE), Bytes(10, 0, FALSE), Bytes(16, 0, FALSE), Bytes(16, 0, TRUE),
     Bytes(20, 0, TRUE), Bytes(32, 0, TRUE), Bytes(43, 0, TRUE), Bytes(44, 1, TRUE)}

\* utils: addPadding and SecretBytes.  base64.URLEncoding decodes a string
\* of the alphabet whose length is a multiple of 4 and that ends with at
\* most two '=', into 3 bytes per 4 characters less one per '='.
addPadding(secret) ==
    LET k == CASE secret.n % 4 = 1 -> 3
               [] secret.n % 4 = 2 -> 2
               [] secret.n % 4 = 3 -> 1
               [] OTHER -> 0
    IN  Bytes(secret.n + k, secret.pad + k, secret.b64)

SecretBytes(secret) ==
    LET padded == addPadding(secret)
        decodes == padded.b64 /\ padded.n % 4 = 0 /\ padded.pad <= 2
        b == Bytes(3 * (padded.n \div 4) - padded.pad, 0, FALSE)
    IN  IF decodes THEN addPadding(b) ELSE secret

AESKeySizes == {16, 24, 32}

validateCookieSecret(secret) ==
    IF secret.n = 0
      THEN << ErrorOf("missing setting: cookie-secret", <<>>) >>
      ELSE IF SecretBytes(secret).n \in AESKeySizes
             THEN <<>>
             ELSE << ErrorOf("cookie_secret must be 16, 24, or 32 bytes", SecretBytes(secret).n) >>

\* package encryption, from its specification: a nonce's hash and its
\* check, the AES-CFB cipher of a key, the signed value
\* base64(ciphertext)|timestamp|hmac(name, ciphertext, timestamp, secret)
\* and its validation now - timestamp <= expire
HashNonce(nonce) == [sha256 |-> nonce]
CheckNonce(hashed, nonce) == hashed = HashNonce(nonce)

NewCFBCipher(key) == [err |-> key.n \notin AESKeySizes, key |-> key]
Garbled == [map |-> FALSE, fields |-> <<>>]
Encrypt(key, data) == [short |-> FALSE, key |-> key, data |-> data]
Decrypt(key, value) ==
    IF value.short
      THEN [err |-> TRUE, out |-> Garbled]
      ELSE [err |-> FALSE, out |-> IF value.key = key THEN value.data ELSE Garbled]

SignedValue(secret, name, value, now) ==
    [parts |-> 3, value |-> value, ts |-> now,
     sig |-> [secret |-> secret, name |-> name, value |-> value, ts |-> now]]
Validate(cookie, secret, expire, now) ==
    LET v == cookie.Value
    IN  /\ v.parts = 3
        /\ v.sig = [secret |-> secret, name |-> cookie.Name, value |-> v.value, ts |-> v.ts]
        /\ now - v.ts <= expire

\* msgpack: the fields tagged s and n, the empty ones left out
Marshal(c) ==
    [map |-> TRUE,
     fields |-> (IF c.OAuthState = <<>> THEN <<>> ELSE << <<"s", c.OAuthState>> >>)
                \o (IF c.OIDCNonce = <<>> THEN <<>> ELSE << <<"n", c.OIDCNonce>> >>)]
Unmarshal(data) ==
    LET Field(tag) ==
            LET at == {i \in DOMAIN data.fields : data.fields[i][1] = tag}
            IN  IF at = {} THEN <<>> ELSE data.fields[CHOOSE i \in at : TRUE][2]
    IN  [err |-> ~data.map,
         csrf |-> IF data.map
                    THEN [nil |-> FALSE, OAuthState |-> Field("s"), OIDCNonce |-> Field("n")]
                    ELSE NoToken]

\* csrf.go
csrfCookieName(opts) == opts.Name \o Str_csrf

makeCipher(opts) == NewCFBCipher(opts.Secret)

encrypt(data, opts) ==
    LET c == makeCipher(opts)
    IN  IF c.err
          THEN [err |-> TRUE, msg |-> ErrorOf("crypto/aes: invalid key size", opts.Secret.n),
                out |-> Encrypt(c.key, Garbled)]
          ELSE [err |-> FALSE, msg |-> NoError, out |-> Encrypt(c.key, data)]

decrypt(data, opts) ==
    LET c == makeCipher(opts)
        d == Decrypt(c.key, data)
    IN  IF c.err
          THEN [err |-> TRUE, msg |-> ErrorOf("crypto/aes: invalid key size", opts.Secret.n),
                out |-> Garbled]
          ELSE IF d.err
                 THEN [err |-> TRUE, msg |-> ErrorOf("encrypted value should be at least 16 bytes", <<>>),
                       out |-> Garbled]
                 ELSE [err |-> FALSE, msg |-> NoError, out |-> d.out]

\* a draw of encryption.Nonce: the bytes or an error
Draws == [err : {FALSE}, bytes : Nonces] \cup {[err |-> TRUE, bytes |-> <<>>]}

\* the mutant of NewCSRF that does not look at the second draw's error
NewCSRFSecondUnchecked(state, nonce) ==
    IF state.err
      THEN [err |-> TRUE, msg |-> ErrorOf("nonce", 1), csrf |-> NoToken]
      ELSE [err |-> FALSE, msg |-> NoError,
            csrf |-> [nil |-> FALSE, OAuthState |-> state.bytes, OIDCNonce |-> nonce.bytes]]

\* the second draw is made only after the first one succeeded
NewCSRF(state, nonce) ==
    IF state.err
      THEN [err |-> TRUE, msg |-> ErrorOf("nonce", 1), csrf |-> NoToken]
      ELSE IF nonce.err
             THEN [err |-> TRUE, msg |-> ErrorOf("nonce", 2), csrf |-> NoToken]
             ELSE [err |-> FALSE, msg |-> NoError,
                   csrf |-> [nil |-> FALSE, OAuthState |-> state.bytes, OIDCNonce |-> nonce.bytes]]

\* the mutant of CheckOAuthState that checks against the OIDC nonce
CheckOAuthStateAgainstNonce(c, hashed) == CheckNonce(hashed, c.OIDCNonce)
CheckOAuthState(c, hashed) == CheckNonce(hashed, c.OAuthState)
CheckOIDCNonce(c, hashed) == CheckNonce(hashed, c.OIDCNonce)
SetSessionNonce(c, s) == [s EXCEPT !.Nonce = c.OIDCNonce]

encodeCookie(c, opts, now) ==
    LET encrypted == encrypt(Marshal(c), opts)
    IN  IF encrypted.err
          THEN [err |-> TRUE, msg |-> encrypted.msg, value |-> <<>>]
          ELSE [err |-> FALSE, msg |-> NoError,
                value |-> SignedValue(opts.Secret, csrfCookieName(opts), encrypted.out, now)]

\* the mutant of decodeCSRFCookie that unmarshals what it did not decrypt
decodeCSRFCookieNoDecrypt(cookie, opts, now) ==
    IF ~Validate(cookie, opts.Secret, opts.Expire, now)
      THEN [err |-> TRUE, msg |-> ErrorOf("CSRF cookie failed validation", <<>>),
            csrf |-> NoToken, ran |-> <<"Validate">>]
      ELSE [err |-> TRUE, msg |-> ErrorOf("error unmarshalling data to CSRF", <<>>),
            csrf |-> NoToken, ran |-> <<"Validate", "Unmarshal">>]

\* the mutant of decodeCSRFCookie that decrypts what it did not validate
decodeCSRFCookieNoValidate(cookie, opts, now) ==
    LET decrypted == decrypt(cookie.Value.value, opts)
        c == Unmarshal(decrypted.out)
    IN  IF decrypted.err
          THEN [err |-> TRUE, msg |-> decrypted.msg,
                csrf |-> NoToken, ran |-> <<"decrypt">>]
          ELSE IF c.err
                 THEN [err |-> TRUE, msg |-> ErrorOf("error unmarshalling data to CSRF", <<>>),
                       csrf |-> NoToken, ran |-> <<"decrypt", "Unmarshal">>]
                 ELSE [err |-> FALSE, msg |-> NoError,
                       csrf |-> c.csrf, ran |-> <<"decrypt", "Unmarshal">>]

\* ran: the stages that were run, in order
decodeCSRFCookie(cookie, opts, now) ==
    IF ~Validate(cookie, opts.Secret, opts.Expire, now)
      THEN [err |-> TRUE, msg |-> ErrorOf("CSRF cookie failed validation", <<>>),
            csrf |-> NoToken, ran |-> <<"Validate">>]
      ELSE LET decrypted == decrypt(cookie.Value.value, opts)
               c == Unmarshal(decrypted.out)
           IN  IF decrypted.err
                 THEN [err |-> TRUE, msg |-> decrypted.msg,
                       csrf |-> NoToken, ran |-> <<"Validate", "decrypt">>]
                 ELSE IF c.err
                        THEN [err |-> TRUE, msg |-> ErrorOf("error unmarshalling data to CSRF", <<>>),
                              csrf |-> NoToken, ran |-> <<"Validate", "decrypt", "Unmarshal">>]
                        ELSE [err |-> FALSE, msg |-> NoError,
                              csrf |-> c.csrf, ran |-> <<"Validate", "decrypt", "Unmarshal">>]

\* req.Cookie(name) finds the cookie of that name or gives http.ErrNoCookie
LoadCSRFCookie(req, opts, now) ==
    IF req.nil \/ req.Name # csrfCookieName(opts)
      THEN [err |-> TRUE, msg |-> ErrorOf("http: named cookie not present", csrfCookieName(opts)),
            csrf |-> NoToken, ran |-> <<>>]
      ELSE decodeCSRFCookie(req, opts, now)

\* the cookies a user-agent may send that SetCookie never made: a value
\* that is not three parts, a ciphertext too short to decrypt, a plaintext
\* that is no msgpack map, and a well-formed value signed with another secret
PlantedCookies(opts, now) ==
    LET name == csrfCookieName(opts)
        c == [nil |-> FALSE, OAuthState |-> <<1>>, OIDCNonce |-> <<2>>]
        good == SignedValue(opts.Secret, name, Encrypt(opts.Secret, Marshal(c)), now)
        other == CHOOSE s \in Secrets : s # opts.Secret
        values ==
            {[good EXCEPT !.parts = 1],
             SignedValue(opts.Secret, name, [Encrypt(opts.Secret, Garbled) EXCEPT !.short = TRUE], now),
             SignedValue(opts.Secret, name, Encrypt(opts.Secret, Garbled), now),
             [good EXCEPT !.sig.secret = other]}
    IN  {[nil |-> FALSE, Name |-> name, Value |-> v] : v \in values}

\* the process is up: the options were validated and no message was returned
Serving == cookieOpts # NoCookieOpts /\ msgs = <<>>

restOfCSRF ==
    <<Rules, Indices, optimize, pathIndex, methodsIndex, ipsIndex, calls, wk, entries, routes,
      allowIPs>>

\* the process starts with some options.Cookie
ValidateCookie ==
    /\ cookieOpts = NoCookieOpts
    /\ \E o \in [Name : CookieNames, Secret : Secrets, Expire : Expires] :
          /\ cookieOpts' = o
          /\ msgs' = validateCookieSecret(o.Secret)
          /\ last' = [op |-> "validateCookieSecret", secret |-> o.Secret,
                      msgs |-> validateCookieSecret(o.Secret)]
    /\ token' = NoToken /\ loaded' = NoToken /\ session' = NewSession
    /\ UNCHANGED <<restOfCSRF, jar, clock>>

\* one login at a time: a token is made when none is held
CsrfNew ==
    /\ Serving
    /\ token.nil
    /\ \E state \in Draws :
          \E nonce \in (IF state.err THEN {state} ELSE Draws) :
             LET r == NewCSRF(state, nonce)
             IN  /\ token' = r.csrf
                 /\ last' = [op |-> "NewCSRF", state |-> state, nonce |-> nonce,
                             err |-> r.err, msg |-> r.msg, csrf |-> r.csrf]
    /\ UNCHANGED <<restOfCSRF, msgs, cookieOpts, jar, clock, loaded, session>>

CsrfSetCookie ==
    /\ Serving
    /\ ~token.nil
    /\ LET r == encodeCookie(token, cookieOpts, clock)
       IN  /\ jar' = IF r.err THEN jar
                       ELSE [nil |-> FALSE, Name |-> csrfCookieName(cookieOpts), Value |-> r.value]
           /\ last' = [op |-> "SetCookie", csrf |-> token, at |-> clock,
                       err |-> r.err, msg |-> r.msg]
    /\ UNCHANGED <<restOfCSRF, msgs, cookieOpts, token, clock, loaded, session>>

Tick ==
    /\ clock < MaxClock
    /\ clock' = clock + 1
    /\ UNCHANGED <<restOfCSRF, last, msgs, cookieOpts, token, jar, loaded, session>>

AgentRenames ==
    /\ ~jar.nil
    /\ \E n \in CookieNames :
          /\ jar.Name # n \o Str_csrf
          /\ jar' = [jar EXCEPT !.Name = n \o Str_csrf]
    /\ UNCHANGED <<restOfCSRF, last, msgs, cookieOpts, token, clock, loaded, session>>

AgentPlants ==
    /\ Serving
    /\ jar' \in PlantedCookies(cookieOpts, clock)
    /\ UNCHANGED <<restOfCSRF, last, msgs, cookieOpts, token, clock, loaded, session>>

\* the callback loads the cookie under its options.Cookie: those of this
\* process, or those of a process that shares the secret under another name
CsrfLoad ==
    /\ Serving
    /\ \E name \in CookieNames :
          LET opts == [cookieOpts EXCEPT !.Name = name]
              r == LoadCSRFCookie(jar, opts, clock)
          IN  /\ loaded' = r.csrf
              /\ last' = [op |-> "LoadCSRFCookie", cookie |-> jar, opts |-> opts, at |-> clock,
                          err |-> r.err, msg |-> r.msg, csrf |-> r.csrf, ran |-> r.ran]
    /\ UNCHANGED <<restOfCSRF, msgs, cookieOpts, token, jar, clock, session>>

CsrfCheckOAuthState ==
    /\ Serving
    /\ ~loaded.nil
    /\ \E n \in Nonces :
          last' = [op |-> "CheckOAuthState", csrf |-> loaded, of |-> n,
                   ok |-> CheckOAuthState(loaded, HashNonce(n))]
    /\ UNCHANGED <<restOfCSRF, msgs, cookieOpts, token, jar, clock, loaded, session>>

CsrfCheckOIDCNonce ==
    /\ Serving
    /\ ~loaded.nil
    /\ \E n \in Nonces :
          last' = [op |-> "CheckOIDCNonce", csrf |-> loaded, of |-> n,
                   ok |-> CheckOIDCNonce(loaded, HashNonce(n))]
    /\ UNCHANGED <<restOfCSRF, msgs, cookieOpts, token, jar, clock, loaded, session>>

CsrfSetSessionNonce ==
    /\ Serving
    /\ ~loaded.nil
    /\ session' = SetSessionNonce(loaded, session)
    /\ last' = [op |-> "SetSessionNonce", csrf |-> loaded, before |-> session]
    /\ UNCHANGED <<restOfCSRF, msgs, cookieOpts, token, jar, clock, loaded>>

NextCSRF ==
    \/ ValidateCookie
    \/ CsrfNew
    \/ CsrfSetCookie
    \/ Tick
    \/ AgentRenames
    \/ AgentPlants
    \/ CsrfLoad
    \/ CsrfCheckOAuthState
    \/ CsrfCheckOIDCNonce
    \/ CsrfSetSessionNonce

SpecCSRF == Init /\ [][NextCSRF]_vars

-----------------------------------------------------------------------------
(* The allowlist of routes (pkg/allowlist Routes).  A compiledRegexes map  *)
(* is the set of its keys, the raw regexes: the compiled regex of a key is *)
(* the one regexp.Compile gives for it.                                    *)

MaxRoutes == 3

AddGlobalRegex(r, pathRegex) ==
    IF pathRegex \in r.global
      THEN [err |-> FALSE, msg |-> NoError, routes |-> r]
      ELSE IF ~RegexpCompiles(pathRegex)
             THEN [err |-> TRUE, msg |-> ErrorOf("error compiling regex", pathRegex), routes |-> r]
             ELSE [err |-> FALSE, msg |-> NoError,
                   routes |-> [r EXCEPT !.global = @ \cup {pathRegex}]]

\* the mutant of AddMethodRegex that stores the regex under method as given
AddMethodRegexAsGiven(r, method, pathRegex) ==
    LET bucket == IF method \in DOMAIN r.methods THEN r.methods[method] ELSE {}
    IN  IF method \in DOMAIN r.methods /\ pathRegex \in r.methods[method]
          THEN [err |-> FALSE, msg |-> NoError, routes |-> r]
          ELSE IF ~RegexpCompiles(pathRegex)
                 THEN [err |-> TRUE, msg |-> ErrorOf("error compiling regex", pathRegex), routes |-> r]
                 ELSE [err |-> FALSE, msg |-> NoError,
                       routes |-> [r EXCEPT !.methods =
                                     [m \in DOMAIN r.methods \cup {method} |->
                                        IF m = method THEN bucket \cup {pathRegex}
                                                      ELSE r.methods[m]]]]

\* the mutant of AddMethodRegex that makes the bucket before it compiles
AddMethodRegexBucketFirst(r, method, pathRegex) ==
    LET upperMethod == ToUpper(method)
        bucket == IF upperMethod \in DOMAIN r.methods THEN r.methods[upperMethod] ELSE {}
        made == [r EXCEPT !.methods =
                   [m \in DOMAIN r.methods \cup {upperMethod} |->
                      IF m = upperMethod THEN bucket ELSE r.methods[m]]]
    IN  IF method \in DOMAIN r.methods /\ pathRegex \in r.methods[method]
          THEN [err |-> FALSE, msg |-> NoError, routes |-> r]
          ELSE IF ~RegexpCompiles(pathRegex)
                 THEN [err |-> TRUE, msg |-> ErrorOf("error compiling regex", pathRegex), routes |-> made]
                 ELSE [err |-> FALSE, msg |-> NoError,
                       routes |-> [made EXCEPT !.methods[upperMethod] = @ \cup {pathRegex}]]

\* the entry is looked for under method as given, and stored under the
\* method in upper case
AddMethodRegex(r, method, pathRegex) ==
    LET upperMethod == ToUpper(method)
        bucket == IF upperMethod \in DOMAIN r.methods THEN r.methods[upperMethod] ELSE {}
    IN  IF method \in DOMAIN r.methods /\ pathRegex \in r.methods[method]
          THEN [err |-> FALSE, msg |-> NoError, routes |-> r]
          ELSE IF ~RegexpCompiles(pathRegex)
                 THEN [err |-> TRUE, msg |-> ErrorOf("error compiling regex", pathRegex), routes |-> r]
                 ELSE [err |-> FALSE, msg |-> NoError,
                       routes |-> [r EXCEPT !.methods =
                                     [m \in DOMAIN r.methods \cup {upperMethod} |->
                                        IF m = upperMethod THEN bucket \cup {pathRegex}
                                                           ELSE r.methods[m]]]]

\* the mutant of IsTrusted that looks in the buckets of all methods
IsTrustedAnyMethod(r, req) ==
    \/ \E allowedPath \in r.global : MatchString(allowedPath, req.Path)
    \/ \E m \in DOMAIN r.methods :
          \E allowedPath \in r.methods[m] : MatchString(allowedPath, req.Path)

IsTrusted(r, req) ==
    \/ \E allowedPath \in r.global : MatchString(allowedPath, req.Path)
    \/ /\ req.Method \in DOMAIN r.methods
       /\ \E allowedPath \in r.methods[req.Method] : MatchString(allowedPath, req.Path)

\* Routes.LogMessages: a message per global regex, then a message per regex
\* of each method; the maps are ranged over in an order that is not
\* defined, so the result is one of these lists
LogMessages(r) ==
    LET all == {[Method |-> <<"A", "L", "L">>, Regex |-> re] : re \in r.global}
        of == UNION {{[Method |-> m, Regex |-> re] : re \in r.methods[m]} : m \in DOMAIN r.methods}
        n == Cardinality(r.global) + Cardinality(of)
    IN  {logs \in [1..n -> all \cup of] :
           /\ \A i \in 1..n : (i <= Cardinality(r.global)) <=> (logs[i] \in all)
           /\ \A i, j \in 1..n : i # j =>
                 \/ logs[i].Regex # logs[j].Regex
                 \/ (i <= Cardinality(r.global)) # (j <= Cardinality(r.global))
                 \/ logs[i].Method # logs[j].Method
           /\ \A i, j, k \in 1..n :
                 (Cardinality(r.global) < i /\ i < j /\ j < k /\ logs[i].Method = logs[k].Method)
                     => logs[j].Method = logs[i].Method}

restOfRoutes ==
    <<Rules, Indices, optimize, pathIndex, methodsIndex, ipsIndex, calls, wk,
      cookieOpts, token, jar, clock, loaded, session, allowIPs>>

\* validateRoutes: a route without method goes to AddGlobalRegex, an error
\* becomes a message
RoutesAddGlobal ==
    /\ Len(entries) < MaxRoutes
    /\ \E pathRegex \in {<<"^">> \o Str_foo \o <<"$">>, <<"^">> \o Str_healthz, <<"*">>} :
          LET r == AddGlobalRegex(routes, pathRegex)
          IN  /\ entries' = Append(entries, [global |-> TRUE, method |-> <<>>, regex |-> pathRegex])
              /\ routes' = r.routes
              /\ msgs' = IF r.err THEN Append(msgs, r.msg) ELSE msgs
              /\ last' = [op |-> "AddGlobalRegex", before |-> routes, err |-> r.err, msg |-> r.msg]
    /\ UNCHANGED restOfRoutes

\* validateRoutes: a route METHOD=regex goes to AddMethodRegex
RoutesAddMethod ==
    /\ Len(entries) < MaxRoutes
    /\ \E method \in {MethodGet, MethodPost, <<"g", "e", "t">>},
          pathRegex \in {<<"^">> \o Str_foo \o <<"$">>, <<"^">> \o Str_healthz, <<"*">>} :
          LET r == AddMethodRegex(routes, method, pathRegex)
          IN  /\ entries' = Append(entries, [global |-> FALSE, method |-> method, regex |-> pathRegex])
              /\ routes' = r.routes
              /\ msgs' = IF r.err THEN Append(msgs, r.msg) ELSE msgs
              /\ last' = [op |-> "AddMethodRegex", before |-> routes, err |-> r.err, msg |-> r.msg]
    /\ UNCHANGED restOfRoutes

RoutesIsTrusted ==
    /\ \E req \in [Path : {Str_foo, Str_healthz, Str_private},
                   Method : {MethodGet, MethodPost, <<"g", "e", "t">>}] :
          last' = [op |-> "IsTrusted", req |-> req, result |-> IsTrusted(routes, req)]
    /\ UNCHANGED <<restOfRoutes, entries, msgs, routes>>

RoutesLogMessages ==
    /\ \E logs \in LogMessages(routes) :
          last' = [op |-> "LogMessages", logs |-> logs]
    /\ UNCHANGED <<restOfRoutes, entries, msgs, routes>>

NextRoutes == RoutesAddGlobal \/ RoutesAddMethod \/ RoutesIsTrusted \/ RoutesLogMessages

SpecRoutes == Init /\ [][NextRoutes]_vars

-----------------------------------------------------------------------------
(* The allowlist of addresses (pkg/allowlist IPs) *)

MaxIPs == 3

\* the mutant of AddTrustedIP that appends the string it could not parse
AddTrustedIPAppendsAll(i, trustedIP) ==
    IF ParseIPNetOK(trustedIP)
      THEN [err |-> FALSE, msg |-> NoError,
            ips |-> [rawIPs |-> Append(i.rawIPs, trustedIP),
                     trustedIPs |-> i.trustedIPs \cup {trustedIP}]]
      ELSE [err |-> TRUE, msg |-> ErrorOf("could not parse IP network", trustedIP),
            ips |-> [i EXCEPT !.rawIPs = Append(@, trustedIP)]]

\* the mutant of AddTrustedIP that keeps the string and not the network
AddTrustedIPRawOnly(i, trustedIP) ==
    IF ParseIPNetOK(trustedIP)
      THEN [err |-> FALSE, msg |-> NoError,
            ips |-> [i EXCEPT !.rawIPs = Append(@, trustedIP)]]
      ELSE [err |-> TRUE, msg |-> ErrorOf("could not parse IP network", trustedIP), ips |-> i]

AddTrustedIP(i, trustedIP) ==
    IF ParseIPNetOK(trustedIP)
      THEN [err |-> FALSE, msg |-> NoError,
            ips |-> [rawIPs |-> Append(i.rawIPs, trustedIP),
                     trustedIPs |-> i.trustedIPs \cup {trustedIP}]]
      ELSE [err |-> TRUE, msg |-> ErrorOf("could not parse IP network", trustedIP), ips |-> i]

\* IPs.IsTrusted: trustedIPs is never nil after NewIPs
IPsIsTrusted(i, req) ==
    IF req.ClientIP = IPErr THEN FALSE
    ELSE IF req.ClientIP = IPNil THEN FALSE
    ELSE NetSetHas(i.trustedIPs, req.ClientIP)

IPsLogMessages(i) == i.rawIPs

restOfIPs ==
    <<Rules, Indices, optimize, pathIndex, methodsIndex, ipsIndex, calls, wk,
      cookieOpts, token, jar, clock, loaded, session, routes>>

\* validateTrustedIPs: every entry goes to AddTrustedIP, an error becomes a
\* message
AllowlistAddTrustedIP ==
    /\ Len(entries) < MaxIPs
    /\ \E trustedIP \in {"10.0.0.0/8", "10.4.5.6/32", "192.0.2.1", "::1", "[::1]"} :
          LET r == AddTrustedIP(allowIPs, trustedIP)
          IN  /\ entries' = Append(entries, trustedIP)
              /\ allowIPs' = r.ips
              /\ msgs' = IF r.err THEN Append(msgs, r.msg) ELSE msgs
              /\ last' = [op |-> "AddTrustedIP", before |-> allowIPs, err |-> r.err, msg |-> r.msg]
    /\ UNCHANGED restOfIPs

AllowlistIsTrusted ==
    /\ \E addr \in Addrs \cup {"::1", IPNil, IPErr} :
          LET req == [Path |-> Str_foo, Method |-> MethodGet, ClientIP |-> addr]
          IN  last' = [op |-> "IPs.IsTrusted", req |-> req, result |-> IPsIsTrusted(allowIPs, req)]
    /\ UNCHANGED <<restOfIPs, entries, msgs, allowIPs>>

AllowlistLogMessages ==
    /\ last' = [op |-> "IPs.LogMessages", logs |-> IPsLogMessages(allowIPs)]
    /\ UNCHANGED <<restOfIPs, entries, msgs, allowIPs>>

NextIPs == AllowlistAddTrustedIP \/ AllowlistIsTrusted \/ AllowlistLogMessages

SpecIPs == Init /\ [][NextIPs]_vars

-----------------------------------------------------------------------------
(* The validation layer: validateAllowlist and validateAuthorization turn  *)
(* the options into the allowlists and into the rules engine               *)

MaxConfigCalls == 1

RECURSIVE Split(_, _)
\* strings.Split(s, sep) for a separator of one character
Split(s, sep) ==
    LET at == {k \in 1..Len(s) : s[k] = sep}
        first == CHOOSE k \in at : \A j \in at : k <= j
    IN  IF at = {} THEN <<s>>
        ELSE <<SubSeq(s, 1, first - 1)>> \o Split(SubSeq(s, first + 1, Len(s)), sep)

RECURSIVE JoinNoSep(_, _)
\* the parts put together with the separator lost
JoinNoSep(parts, sep) ==
    IF Len(parts) = 0 THEN <<>> ELSE parts[1] \o JoinNoSep(Tail(parts), sep)

RECURSIVE Join(_, _)
\* strings.Join(parts, sep)
Join(parts, sep) ==
    IF Len(parts) = 0 THEN <<>>
    ELSE IF Len(parts) = 1 THEN parts[1]
    ELSE parts[1] \o <<sep>> \o Join(Tail(parts), sep)

\* the options: SkipAuthRoutes, SkipAuthRegex, SkipAuthPreflight, TrustedIPs
\* (nil when the option is not given)
Options ==
    [SkipAuthRoutes : {<<>>,
                       << <<"^">> \o Str_foo \o <<"$">> >>,
                       << MethodGet \o <<"=", "^">> \o Str_foo \o <<"$">> >>,
                       << <<"g", "e", "t", "=", "^">> \o Str_foo \o <<"$">> >>,
                       << MethodPost \o <<"=", "^">> \o Str_fooeqbar \o <<"$">> >>,
                       << <<"*">>, MethodPost \o <<"=", "^">> \o Str_healthz >>},
     SkipAuthRegex : {<<>>, << <<"^">> \o Str_healthz >>},
     SkipAuthPreflight : BOOLEAN,
     TrustedIPs : {NilList, ListOf(<<>>), ListOf(<<"10.0.0.0/8">>)}]

\* what a validate function returns with an error or without
Validated(st, r, field, value) ==
    [st EXCEPT ![field] = value, !.msgs = IF r.err THEN Append(@, r.msg) ELSE @]

RECURSIVE allowlistValidateRoutes(_, _, _)
\* validateRoutes of the allowlist, from the route i on
allowlistValidateRoutes(o, st, i) ==
    IF i > Len(o.SkipAuthRoutes) THEN st
    ELSE LET parts == Split(o.SkipAuthRoutes[i], "=")
             r == IF Len(parts) = 1
                    THEN AddGlobalRegex(st.routes, parts[1])
                    ELSE AddMethodRegex(st.routes, parts[1], Join(Tail(parts), "="))
         IN  allowlistValidateRoutes(o, Validated(st, r, "routes", r.routes), i + 1)

RECURSIVE allowlistValidateRegexes(_, _, _)
allowlistValidateRegexes(o, st, i) ==
    IF i > Len(o.SkipAuthRegex) THEN st
    ELSE LET r == AddGlobalRegex(st.routes, o.SkipAuthRegex[i])
         IN  allowlistValidateRegexes(o, Validated(st, r, "routes", r.routes), i + 1)

allowlistValidatePreflight(o, st) ==
    IF o.SkipAuthPreflight
      THEN LET r == AddMethodRegex(st.routes, MethodOptions, <<".", "*">>)
           IN  Validated(st, r, "routes", r.routes)
      ELSE st

RECURSIVE allowlistValidateTrustedIPs(_, _, _)
allowlistValidateTrustedIPs(o, st, i) ==
    IF i > Len(o.TrustedIPs.list) THEN st
    ELSE LET r == AddTrustedIP(st.ips, o.TrustedIPs.list[i])
         IN  allowlistValidateTrustedIPs(o, Validated(st, r, "ips", r.ips), i + 1)

validateAllowlist(o) ==
    LET st0 == [routes |-> NewRoutes, ips |-> NewIPs, msgs |-> <<>>]
        st1 == allowlistValidateRoutes(o, st0, 1)
        st2 == allowlistValidateRegexes(o, st1, 1)
        st3 == allowlistValidatePreflight(o, st2)
    IN  allowlistValidateTrustedIPs(o, st3, 1)

\* a validate function of the authorization: the rule is added when NewRule
\* returned no error
RuleValidated(st, r) ==
    IF r.err THEN [st EXCEPT !.msgs = Append(@, r.msg)]
             ELSE [st EXCEPT !.e = AddRuleTo(@, r.rule)]

RECURSIVE authorizationValidateRoutes(_, _, _)
\* validateRoutes of the authorization, from the route i on; the ids count
\* from 0
authorizationValidateRoutes(o, st, i) ==
    IF i > Len(o.SkipAuthRoutes) THEN st
    ELSE LET parts == Split(o.SkipAuthRoutes[i], "=")
             r == IF Len(parts) = 1
                    THEN NewRule(RouteID(i - 1), Allow, parts[1], NilList, NilList)
                    ELSE NewRule(RouteID(i - 1), Allow, Join(Tail(parts), "="),
                                 ListOf(<<parts[1]>>), NilList)
         IN  authorizationValidateRoutes(o, RuleValidated(st, r), i + 1)

RECURSIVE authorizationValidateRegexes(_, _, _)
authorizationValidateRegexes(o, st, i) ==
    IF i > Len(o.SkipAuthRegex) THEN st
    ELSE LET r == NewRule(<<"regex", i - 1>>, Allow, o.SkipAuthRegex[i], NilList, NilList)
         IN  authorizationValidateRegexes(o, RuleValidated(st, r), i + 1)

authorizationValidatePreflight(o, st) ==
    IF o.SkipAuthPreflight
      THEN RuleValidated(st, NewRule(<<"preflight", 0>>, Allow, <<>>,
                                     ListOf(<<MethodOptions>>), NilList))
      ELSE st

\* the rule of the trusted addresses is made whether or not there are any
authorizationValidateTrustedIPs(o, st) ==
    RuleValidated(st, NewRule(<<"trustedIP", 0>>, Allow, <<>>, NilList, o.TrustedIPs))

validateAuthorization(o) ==
    LET st0 == [e |-> NewRulesEngine, msgs |-> <<>>]
        st1 == authorizationValidateRoutes(o, st0, 1)
        st2 == authorizationValidateRegexes(o, st1, 1)
        st3 == authorizationValidatePreflight(o, st2)
    IN  authorizationValidateTrustedIPs(o, st3)

restOfConfig == <<wk, cookieOpts, token, jar, clock, loaded, session>>

\* the options are validated: the allowlists and the engine are built
ValidateOptions ==
    /\ entries = <<>>
    /\ \E o \in Options :
          LET al == validateAllowlist(o)
              au == validateAuthorization(o)
          IN  /\ entries' = <<o>>
              /\ routes' = al.routes
              /\ allowIPs' = al.ips
              /\ EngineBecomes(au.e)
              /\ msgs' = al.msgs \o au.msgs
              /\ last' = [op |-> "Validate", allowlist |-> al.msgs, authorization |-> au.msgs]
    /\ UNCHANGED <<calls, restOfConfig>>

ConfigRequests ==
    [Path : {Str_foo, Str_healthz, Str_fooeqbar},
     Method : {MethodGet, MethodPost, MethodOptions, <<"g", "e", "t">>},
     ClientIP : Addrs]

\* the engine the validation built is asked
ConfigAllow ==
    /\ entries # <<>>
    /\ calls < MaxConfigCalls
    /\ \E req \in ConfigRequests :
          LET out == check(Engine, req, Allow, FALSE)
          IN  /\ EngineBecomes(out.e)
              /\ last' = [op |-> Allow, req |-> req, result |-> out.result,
                          optimized |-> optimize, rule |-> out.rule,
                          via |-> out.via, evals |-> out.evals]
    /\ calls' = calls + 1
    /\ UNCHANGED <<restOfConfig, entries, msgs, routes, allowIPs>>

\* the allowlists the validation built are asked
ConfigIsTrusted ==
    /\ entries # <<>>
    /\ \E req \in ConfigRequests :
          last' = [op |-> "IsTrusted", req |-> req,
                   routes |-> IsTrusted(routes, req), ips |-> IPsIsTrusted(allowIPs, req)]
    /\ UNCHANGED <<engineVars, calls, restOfConfig, entries, msgs, routes, allowIPs>>

NextConfig == ValidateOptions \/ ConfigAllow \/ ConfigIsTrusted

SpecConfig == Init /\ [][NextConfig]_vars

-----------------------------------------------------------------------------
(* The path index on its own: rules with a path are added, and MatchRules  *)
(* is asked for the candidates of a request                                *)

MaxPathRules == 3

MaxPathCalls == 2

\* the bounds rawRegex[start:end] of the slice IndexRule takes as the key
PathSlice(rawRegex) ==
    LET len == Len(rawRegex)
    IN  [start |-> IF SubSeq(rawRegex, 1, 1) = <<"^">> THEN 1 ELSE 0,
         end |-> IF SubSeq(rawRegex, len, len) = <<"$">> THEN len - 1 ELSE len]

\* the paths given to NewRule
PathRegexes ==
    {<<>>, <<"*">>, <<"^">>, <<"$">>, <<"^", "$">>, Str_foo, <<"^">> \o Str_foo,
     Str_foo \o <<"$">>, <<"^">> \o Str_foo \o <<"$">>, <<"^", "^">> \o Str_foo \o <<"$", "$">>}

\* the paths of the requests
PathRequests ==
    [Path : {<<>>, Str_foo, Str_healthz, Str_foo \o <<"$">>,
             <<"^">> \o Str_foo \o <<"$">>},
     Method : {MethodGet},
     ClientIP : {IPNil}]

\* NewRule with a path, then AddRule when it gave a rule
PathAddRule ==
    /\ Len(Rules) < MaxPathRules
    /\ calls = 0
    /\ \E path \in PathRegexes :
          LET r == NewRule(RouteID(Len(Rules)), Allow, path, NilList, NilList)
          IN  /\ last' = [op |-> "NewRule", path |-> path, err |-> r.err]
              /\ IF r.err THEN UNCHANGED engineVars
                          ELSE EngineBecomes(AddRuleTo(Engine, r.rule))
    /\ UNCHANGED <<calls, wk, restVars>>

\* PathIndex.MatchRules(req)
PathMatch ==
    /\ calls < MaxPathCalls
    /\ \E req \in PathRequests :
          LET m == PathMatchRules(Engine, req)
          IN  /\ EngineBecomes(m.e)
              /\ last' = [op |-> "MatchRules", req |-> req, nil |-> m.ref = NoBucket,
                          rules |-> Bucket(m.e, m.ref)]
    /\ calls' = calls + 1
    /\ UNCHANGED <<wk, restVars>>

NextPath == PathAddRule \/ PathMatch

SpecPath == Init /\ [][NextPath]_vars

-----------------------------------------------------------------------------
(* Rules that share an id: AddRule takes any rule, whatever its id           *)

MaxDupCalls == 1

\* the number of added rules that may carry the id of a rule added before
MaxDups == 1

\* the position in the configuration of the rule added last
LastAdded == IF entries = <<>> THEN 0 ELSE entries[Len(entries)]

\* the ids of the rules of the engine
RuleIDs == {Rules[k].ID : k \in 1..Len(Rules)}

\* a rule of the configuration is added under its own id or, while the
\* engine holds no two rules of one id, under the id of a rule added before
DupAddRule ==
    /\ Len(Rules) < MaxRules
    /\ calls = 0
    /\ \E i \in (LastAdded + 1)..Len(RuleArgs) :
          \E id \in {RouteID(i - 1)} \cup
                    (IF Len(Rules) - Cardinality(RuleIDs) < MaxDups THEN RuleIDs ELSE {}) :
              LET a == RuleArgs[i]
                  r == NewRule(id, a.policy, a.path, a.methods, a.ips)
              IN  /\ ~r.err
                  /\ EngineBecomes(AddRuleTo(Engine, r.rule))
                  /\ entries' = Append(entries, i)
                  /\ last' = [NoCall EXCEPT !.op = "AddRule"]
    /\ UNCHANGED <<calls, wk, msgs, cookieOpts, token, jar, clock, loaded, session,
                   routes, allowIPs>>

\* Allow or Deny on the engine
DupCall ==
    /\ calls < MaxDupCalls
    /\ \E verb \in {Allow, Deny}, req \in Requests, reorder \in Reorders :
          LET out == check(Engine, req, verb, reorder)
          IN  /\ EngineBecomes(out.e)
              /\ last' = [op |-> verb, req |-> req, result |-> out.result,
                          optimized |-> optimize, rule |-> out.rule,
                          via |-> out.via, evals |-> out.evals]
    /\ calls' = calls + 1
    /\ UNCHANGED <<wk, restVars>>

NextDup == DupAddRule \/ DupCall

SpecDup == Init /\ [][NextDup]_vars

-----------------------------------------------------------------------------
(* Properties of the sequential engine *)

Verbs == {Allow, Deny}

Handles == 1..Len(Rules)

\* the last operation was a call of Allow or Deny
Called == last.op \in Verbs

DistinctIDs == \A a, b \in Handles : a # b => Rules[a].ID # Rules[b].ID

\* the three field conditions of a rule, read off the rule's fields: the raw
\* regex matched against the path, the methods set, the networks
PathHolds(rule, req) == rule.Path.nil \/ MatchString(rule.Path.Raw, req.Path)

MethodHolds(rule, req) == rule.Methods.nil \/ req.Method \in rule.Methods.set

IPHolds(rule, req) ==
    rule.IPs.nil \/
        (req.ClientIP \in Addrs /\ \E n \in rule.IPs.set : req.ClientIP \in NetAddrs(n))

RuleMatches(rule, req) ==
    PathHolds(rule, req) /\ MethodHolds(rule, req) /\ IPHolds(rule, req)

\* C1: with pairwise distinct rule ids, a call evaluated with optimize set
\* returns what the linear scan of the same rules in insertion order returns
\* for the same request, whatever the order of the indices and of the
\* candidate lists has become.
C1_OptimizedEqualsLinear ==
    (Called /\ last.optimized /\ DistinctIDs) =>
        last.result = linearScan(Engine, last.req, last.op, 1).result

\* an optimized call decided by the fallback sweep on a rule that has a path:
\* the path index did not yield the rule
C1_Witness ==
    /\ Called /\ last.optimized /\ DistinctIDs
    /\ last.result /\ last.via = "fallback"
    /\ ~Rules[last.rule].Path.nil
    /\ Len(Indices) > 1

\* C3: Allow returns true only on a matching rule of policy ALLOW and Deny
\* only on a matching rule of policy DENY, in the linear and in the optimized
\* evaluation.
C3_PolicyTotality ==
    (Called /\ last.result) =>
        /\ last.rule \in Handles
        /\ Rules[last.rule].Policy = last.op
        /\ RuleMatches(Rules[last.rule], last.req)

\* an optimized Allow that returned true while a DENY rule matches the request
C3_Witness ==
    /\ last.op = Allow /\ last.result /\ last.optimized
    /\ \E h \in Handles : Rules[h].Policy = Deny /\ RuleMatches(Rules[h], last.req)

Unresolved(req) == req.ClientIP \in {IPNil, IPErr}

\* C4: when the client address is not resolved (error or nil), no rule with
\* an ips set matches, the Network index yields no candidates and counts no
\* hit, and a call returns true only on a rule without an ips set.
C4_UnresolvedIPNeverMatches ==
    (Called /\ Unresolved(last.req)) =>
        /\ \A h \in Handles : ~Rules[h].IPs.nil => ~RuleCheck(Rules[h], last.req, last.op)
        /\ IPsMatchRules(Engine, last.req) = [e |-> Engine, ref |-> NoBucket]
        /\ last.via # IPsName
        /\ last.result => Rules[last.rule].IPs.nil

\* a call with an unresolved client address, on an engine whose Network index
\* is active, that returned true on a rule without an ips set
C4_Witness ==
    /\ Called /\ Unresolved(last.req) /\ last.optimized
    /\ \E k \in 1..Len(Indices) : Indices[k] = IPsName
    /\ last.result /\ Rules[last.rule].IPs.nil

\* S1: the only rule is ALLOW path=/healthz
OnlyHealthz ==
    /\ Len(Rules) = 1
    /\ Rules[1].Policy = Allow /\ Rules[1].Path.Raw = Str_healthz
    /\ Rules[1].Methods.nil /\ Rules[1].IPs.nil

AllAbsent(rule) == rule.Path.nil /\ rule.Methods.nil /\ rule.IPs.nil

\* C5: a call returns true iff some rule of its policy has a path that is
\* absent or matches, a methods set that is absent or holds the method, and an
\* ips set that is absent or holds the resolved client address.  With the
\* single rule ALLOW path=/healthz, GET /healthz is allowed and GET /private
\* is not; a rule with all three absent matches every request.
C5_MatchIsConjunction ==
    (Called /\ DistinctIDs) =>
        /\ last.result =
              (\E h \in Handles : Rules[h].Policy = last.op /\ RuleMatches(Rules[h], last.req))
        /\ (OnlyHealthz /\ last.op = Allow) =>
              /\ last.req.Path = Str_healthz => last.result
              /\ last.req.Path = Str_private => ~last.result
        /\ (\E h \in Handles : Rules[h].Policy = last.op /\ AllAbsent(Rules[h])) => last.result

\* S1: GET /healthz allowed by the single rule
C5_Witness ==
    /\ OnlyHealthz /\ last.op = Allow
    /\ last.req.Path = Str_healthz /\ last.req.Method = MethodGet
    /\ last.result /\ last.rule = 1

\* a step that is a call of Allow or Deny
CallStep == calls' = calls + 1 /\ last'.op \in Verbs

\* C6: a call that returns true adds exactly one to the hits of the rule that
\* produced the match and leaves the hits of every other rule unchanged; a
\* call that returns false leaves all hits unchanged.
C6_OneHitPerMatch ==
    [][CallStep =>
        /\ Len(Rules') = Len(Rules)
        /\ last'.result => (last'.rule \in Handles
                            /\ RuleMatches(Rules[last'.rule], last'.req)
                            /\ Rules[last'.rule].Policy = last'.op)
        /\ \A h \in Handles :
              Rules'[h].hits =
                  Rules[h].hits + (IF last'.result /\ h = last'.rule THEN 1 ELSE 0)
      ]_vars

\* S5: with the GET-only and the POST-only rule on /foo in the engine, an
\* optimized GET /foo was allowed and hit the GET rule only
C6_Witness ==
    /\ last.op = Allow /\ last.result /\ last.optimized
    /\ last.req.Path = Str_foo /\ last.req.Method = MethodGet
    /\ Rules[last.rule].Methods = SetOf({MethodGet}) /\ Rules[last.rule].hits = 1
    /\ \E h \in Handles :
          /\ Rules[h].Methods = SetOf({MethodPost})
          /\ Rules[h].Path = Rules[last.rule].Path
          /\ Rules[h].hits = 0

\* the rule NewRule builds for route number i of the configuration
ConfiguredRule(i) ==
    NewRule(RouteID(i), RuleArgs[i + 1].policy, RuleArgs[i + 1].path,
            RuleArgs[i + 1].methods, RuleArgs[i + 1].ips).rule

\* the list l holds every element of the set S once and nothing else
HoldsOnce(l, S) ==
    /\ Len(l) = Cardinality(S)
    /\ {l[k] : k \in 1..Len(l)} = S

\* C8: the global list holds the rules that were added, each once; the bucket
\* of every path key, of every method and the list of the Network index hold
\* exactly the rules indexed into them, each once.
C8_ReorderingKeepsRules ==
    /\ \A h \in Handles : Added(Rules[h]) = ConfiguredRule(Rules[h].ID[2])
    /\ \A a, b \in Handles : a < b => Rules[a].ID[2] < Rules[b].ID[2]
    /\ DOMAIN pathIndex.paths =
          {PathKey(Rules[h].Path.Raw) : h \in {g \in Handles : ~Rules[g].Path.nil}}
    /\ \A key \in DOMAIN pathIndex.paths :
          HoldsOnce(pathIndex.paths[key],
                    {h \in Handles : ~Rules[h].Path.nil /\ PathKey(Rules[h].Path.Raw) = key})
    /\ \A m \in HTTPMethods :
          HoldsOnce(methodsIndex.methods[m],
                    {h \in Handles : ~Rules[h].Methods.nil /\ m \in Rules[h].Methods.set})
    /\ HoldsOnce(ipsIndex.Rules, {h \in Handles : ~Rules[h].IPs.nil})

\* a rule was added after a candidate list had been reordered: the list of
\* the Methods index for POST starts with a later rule, and the last rule of
\* the engine has no hits and came after the call
C8_Witness ==
    /\ last.op = "AddRule" /\ calls > 0
    /\ Len(methodsIndex.methods[MethodPost]) > 1
    /\ methodsIndex.methods[MethodPost][1] > methodsIndex.methods[MethodPost][2]

\* C10: optimize is set iff more than 5 rules have been added.
C10_OptimizeIffMoreThanFive == optimize = (Len(Rules) > 5)

\* a call made on an engine of six rules
C10_Witness == Len(Rules) = 6 /\ optimize /\ Called /\ last.optimized

-----------------------------------------------------------------------------
(* Properties of scenario S4 *)

\* the candidate list the index named via holds for the request
CandidatesVia(via, req) ==
    IF via = PathName THEN pathIndex.paths[req.Path]
    ELSE IF via = MethodsName THEN methodsIndex.methods[req.Method]
    ELSE ipsIndex.Rules

\* C9: in scenario S4 every GET /api/x returns true on the 17th rule, and
\* after 20 or more of them optimize is set, the rule's hits equals the
\* number of requests and the rule is first in the candidate list of the
\* index that yielded it.
C9_BubblesToFront ==
    /\ calls > 0 =>
          /\ last.result /\ last.optimized /\ last.rule = S4Target
          /\ Rules[S4Target].hits = calls
          /\ last.via \in {PathName, MethodsName}
    /\ calls >= S4Judged =>
          /\ optimize
          /\ CandidatesVia(last.via, last.req)[1] = S4Target

\* the target started behind S4Target - 1 other rules in the candidate list
\* of the Methods index, which yielded it, and is first after S4Judged requests
C9_Witness ==
    /\ calls = S4Judged /\ last.via = MethodsName
    /\ Len(methodsIndex.methods[MethodGet]) = S4Rules
    /\ methodsIndex.methods[MethodGet][1] = S4Target
    /\ Rules[S4Target].hits = S4Judged

-----------------------------------------------------------------------------
(* Properties of the concurrent evaluation (SpecConc) *)

\* C2: with the swaps of the index list, the swaps of the candidate lists and
\* the hit increments of several workers interleaved as separate reads and
\* writes, every call returns true iff some rule of the call's policy matches
\* the call's request (and returns true on such a rule): a rule that the
\* index lists did not show to the call is found by the sweep over all rules
\* whose id is not in checked.
C2_ConcurrentDecision ==
    Called =>
        /\ last.result =
              (\E h \in Handles : Rules[h].Policy = last.op /\ RuleMatches(Rules[h], last.req))
        /\ last.result =>
              /\ last.rule \in Handles
              /\ Rules[last.rule].Policy = last.op
              /\ RuleMatches(Rules[last.rule], last.req)

\* a call whose request has a bucket in the path index, and which returned
\* true from the sweep on a rule that was indexed into that very bucket: the
\* call's walk over the indices and the bucket did not come across the rule,
\* because of the swap of another worker
C2_Witness ==
    /\ Called /\ last.result /\ last.via = "fallback"
    /\ last.req.Path \in DOMAIN pathIndex.paths
    /\ ~Rules[last.rule].Path.nil
    /\ PathKey(Rules[last.rule].Path.Raw) = last.req.Path
    /\ calls >= 2

\* C7: with each hits++ a separate read followed by a write, the hits of
\* every rule and of every index never decrease from one step to the next.
C7_HitsNeverDecrease ==
    [][/\ \A h \in Handles : Rules'[h].hits >= Rules[h].hits
       /\ pathIndex'.hits >= pathIndex.hits
       /\ methodsIndex'.hits >= methodsIndex.hits
       /\ ipsIndex'.hits >= ipsIndex.hits
      ]_vars

-----------------------------------------------------------------------------
(* Properties of rule construction and validation (SpecRule) *)

\* what makes the arguments of NewRule a configuration error
BadPolicy(a) == a.policy \notin {Allow, Deny}
BadPath(a) == a.path # <<>> /\ ~RegexpCompiles(a.path)
BadIPs(a) == ~a.ips.nil /\ \E k \in 1..Len(a.ips.list) : ~ParseIPNetOK(a.ips.list[k])
BadArgs(a) == BadPolicy(a) \/ BadPath(a) \/ BadIPs(a)

\* the places of the ips list that hold an entry that does not parse
Unparseable(a) == {k \in 1..Len(a.ips.list) : ~ParseIPNetOK(a.ips.list[k])}

\* C11: NewRule returns an error and no rule when the policy is neither ALLOW
\* nor DENY, when the path regex does not compile, or when some ips entry does
\* not parse (the error then lists every entry that does not parse); the
\* validation adds a rule to the engine only when NewRule succeeded, so the
\* engine that evaluates requests holds well-formed rules only, one per entry
\* without an error, and there is one message per entry with an error.
C11_ConfigErrorsStopAtNewRule ==
    /\ Len(Rules) = Cardinality({k \in 1..Len(entries) : ~BadArgs(entries[k])})
    /\ Len(msgs) = Cardinality({k \in 1..Len(entries) : BadArgs(entries[k])})
    /\ \A h \in Handles :
          /\ Rules[h].Policy \in {Allow, Deny}
          /\ Rules[h].Path.nil \/ RegexpCompiles(Rules[h].Path.Raw)
          /\ Rules[h].IPs.nil \/ \A n \in Rules[h].IPs.set : ParseIPNetOK(n)
    /\ last.op = "NewRule" =>
          /\ last.err = BadArgs(last.args)
          /\ last.err => last.rule = NoRule
          /\ ~last.err => last.rule.Policy = last.args.policy
          /\ (last.err /\ ~BadPolicy(last.args) /\ ~BadPath(last.args)) =>
                /\ Len(last.msg.of) = Cardinality(Unparseable(last.args))
                /\ \A k \in Unparseable(last.args) :
                      \E m \in 1..Len(last.msg.of) : last.msg.of[m] = last.args.ips.list[k]
    /\ (Called /\ last.result) =>
          (last.rule \in Handles /\ RuleMatches(Rules[last.rule], last.req))

\* NewRule failed on an ips list with two entries that do not parse, around
\* one that does: both are in the error, and the engine got no rule
C11_Witness ==
    /\ last.op = "NewRule" /\ last.err
    /\ ~BadPolicy(last.args) /\ ~BadPath(last.args)
    /\ Cardinality(Unparseable(last.args)) = 2
    /\ Len(msgs) = 1 /\ Rules = <<>>

\* C12: a rule that NewRule built from an empty methods list has an absent
\* methods field, and a call on the engine holding that rule alone returns
\* what the rule's policy, path and ips decide, whatever the request's method.
C12_EmptyMethodsIsAbsent ==
    \A k \in 1..Len(entries) :
        (~BadArgs(entries[k]) /\ entries[k].methods = ListOf(<<>>)) =>
            LET h == Cardinality({j \in 1..k : ~BadArgs(entries[j])})
            IN  /\ Rules[h].Methods.nil
                /\ (Called /\ Len(Rules) = 1) =>
                      last.result =
                          (/\ Rules[h].Policy = last.op
                           /\ PathHolds(Rules[h], last.req)
                           /\ IPHolds(Rules[h], last.req))

-----------------------------------------------------------------------------
(* Properties of the CSRF token and its cookie (SpecCSRF) *)

\* C18: NewCSRF draws the OAuth state and the OIDC nonce separately; it
\* returns an error and no token exactly when one of the draws failed, and
\* otherwise a token whose state is the first draw and whose nonce is the
\* second.
C18_NewCSRFNeedsBothDraws ==
    last.op = "NewCSRF" =>
        /\ last.err = (last.state.err \/ last.nonce.err)
        /\ last.err => last.csrf = NoToken /\ token.nil
        /\ ~last.err =>
              /\ ~token.nil
              /\ token.OAuthState = last.state.bytes
              /\ token.OIDCNonce = last.nonce.bytes
              /\ token.OAuthState \in Nonces /\ token.OIDCNonce \in Nonces

\* C18 witness: the first draw succeeded, the second failed, and NewCSRF
\* returned an error and no token.
C18_Witness ==
    /\ last.op = "NewCSRF"
    /\ ~last.state.err /\ last.nonce.err
    /\ last.err /\ token.nil

\* the cookie of the last LoadCSRFCookie was found under the name looked for
Found == ~last.cookie.nil /\ last.cookie.Name = csrfCookieName(last.opts)

\* its value is signed, with the secret of the options, for the name n
SignedFor(n) ==
    LET v == last.cookie.Value
    IN  /\ v.parts = 3
        /\ v.sig = [secret |-> last.opts.Secret, name |-> n, value |-> v.value, ts |-> v.ts]

\* what it carries is the encryption, under that secret, of a msgpack map,
\* and the secret makes a cipher
Sound ==
    LET v == last.cookie.Value.value
    IN  ~v.short /\ v.key = last.opts.Secret /\ v.data.map /\ ~makeCipher(last.opts).err

\* C13: a cookie made by encodeCookie from the token, loaded under the same
\* name and secret no later than expire after it was made, loads without
\* error as a token with the same OAuth state and the same OIDC nonce.
C13_RoundTrip ==
    ( /\ last.op = "LoadCSRFCookie"
      /\ ~token.nil
      /\ last.opts = cookieOpts
      /\ \E t0 \in 0 .. last.at :
            LET made == encodeCookie(token, cookieOpts, t0)
            IN  /\ last.at - t0 <= cookieOpts.Expire
                /\ ~made.err
                /\ last.cookie = [nil |-> FALSE, Name |-> csrfCookieName(cookieOpts),
                                  Value |-> made.value] )
    => /\ ~last.err
       /\ ~loaded.nil
       /\ loaded.OAuthState = token.OAuthState
       /\ loaded.OIDCNonce = token.OIDCNonce

\* C13 witness: a cookie made from a token with two different nonces was
\* loaded, later than it was made, as that token.
C13_Witness ==
    /\ last.op = "LoadCSRFCookie"
    /\ ~last.err
    /\ last.at > last.cookie.Value.ts
    /\ ~token.nil /\ token.OAuthState # token.OIDCNonce
    /\ loaded = token

\* C14: a cookie value made for the name A and presented, within the expiry,
\* in a cookie of another name B to a loader with the same secret fails
\* the validation of its signature: an error, no token, nothing decrypted.
C14_NameBinding ==
    ( /\ last.op = "LoadCSRFCookie"
      /\ Found
      /\ \E n \in CookieNames :
            n \o Str_csrf # last.cookie.Name /\ SignedFor(n \o Str_csrf) )
    => /\ last.err
       /\ last.msg = ErrorOf("CSRF cookie failed validation", <<>>)
       /\ last.ran = <<"Validate">>
       /\ loaded.nil

\* C14 witness: a sound cookie made by SetCookie for one name was loaded in
\* time under the other name, and was refused.
C14_Witness ==
    /\ last.op = "LoadCSRFCookie"
    /\ Found /\ Sound
    /\ last.cookie.Value.sig.name # last.cookie.Name
    /\ SignedFor(last.cookie.Value.sig.name)
    /\ last.cookie.Value.value.data = Marshal(token)
    /\ last.at - last.cookie.Value.ts <= last.opts.Expire
    /\ last.err /\ loaded.nil

C16_StagesInOrder ==
    last.op = "LoadCSRFCookie" =>
        LET valid == Validate(last.cookie, last.opts.Secret, last.opts.Expire, last.at)
            decrypted == decrypt(last.cookie.Value.value, last.opts)
            unmarshalled == Unmarshal(decrypted.out)
        IN  /\ last.err = loaded.nil
            /\ loaded = last.csrf
            /\ last.ran = IF ~Found THEN <<>>
                           ELSE IF ~valid THEN <<"Validate">>
                           ELSE IF decrypted.err THEN <<"Validate", "decrypt">>
                           ELSE <<"Validate", "decrypt", "Unmarshal">>
            /\ ~last.err <=> /\ Found
                              /\ valid
                              /\ ~decrypted.err
                              /\ ~unmarshalled.err

\* C16 witness: a cookie whose value would decrypt and unmarshal but whose
\* signature is bad was loaded: an error, no token, and no decryption.
C16_Witness ==
    /\ last.op = "LoadCSRFCookie"
    /\ Found /\ Sound
    /\ ~SignedFor(last.cookie.Name)
    /\ last.cookie.Value.sig.name = last.cookie.Name
    /\ last.err /\ loaded.nil
    /\ last.ran = <<"Validate">>

\* C17: on a token that was made with OAuth state A and OIDC nonce B, set
\* as a cookie and loaded back, CheckOAuthState accepts the hash of A and
\* of nothing else, CheckOIDCNonce accepts the hash of B and of nothing
\* else, and SetSessionNonce sets the session's nonce to B and leaves the
\* session's other fields as they were.
C17_ChecksAndSessionNonce ==
    /\ ~loaded.nil =>
          /\ loaded.OAuthState = token.OAuthState
          /\ loaded.OIDCNonce = token.OIDCNonce
    /\ last.op = "CheckOAuthState" => last.ok = (last.of = token.OAuthState)
    /\ last.op = "CheckOIDCNonce" => last.ok = (last.of = token.OIDCNonce)
    /\ last.op = "SetSessionNonce" =>
          session = [last.before EXCEPT !.Nonce = token.OIDCNonce]

\* C17 witness: the loaded token has state A and nonce B, A # B, and
\* CheckOAuthState was given the hash of B and refused it.
C17_Witness ==
    /\ last.op = "CheckOAuthState"
    /\ ~loaded.nil
    /\ loaded.OAuthState # loaded.OIDCNonce
    /\ last.of = loaded.OIDCNonce
    /\ ~last.ok

\* C19: validateCookieSecret accepts a secret exactly when SecretBytes of it
\* is 16, 24 or 32 bytes long, and with an accepted secret the cipher of
\* the CSRF codec is made from a key of 16, 24 or 32 bytes, so that
\* SetCookie and LoadCSRFCookie do not fail on the key size.
C19_AcceptedSecretFitsCipher ==
    /\ last.op = "validateCookieSecret" =>
          ((last.msgs = <<>>) <=>
              (last.secret.n # 0 /\ SecretBytes(last.secret).n \in AESKeySizes))
    /\ Serving => ~makeCipher(cookieOpts).err
    /\ (Serving /\ last.op \in {"SetCookie", "LoadCSRFCookie"}) =>
          last.msg.kind # "crypto/aes: invalid key size"

-----------------------------------------------------------------------------
(* Properties of the allowlist of routes (SpecRoutes) *)

\* C20: Routes.IsTrusted(req) is true exactly when a regex that
\* AddGlobalRegex added matches the request's path, or a regex that
\* AddMethodRegex added under the request's method (the method given, in
\* upper case, as it is stored) matches it; a regex added only under other
\* methods does not make the request trusted.
C20_IsTrusted ==
    last.op = "IsTrusted" =>
        (last.result <=>
            \E i \in DOMAIN entries :
               /\ RegexpCompiles(entries[i].regex)
               /\ entries[i].global \/ ToUpper(entries[i].method) = last.req.Method
               /\ MatchString(entries[i].regex, last.req.Path))

\* C20 witness: a regex that matches the request's path was added under
\* another method only, and the request is not trusted.
C20_Witness ==
    /\ last.op = "IsTrusted"
    /\ ~last.result
    /\ \E i \in DOMAIN entries :
          /\ ~entries[i].global
          /\ ToUpper(entries[i].method) # last.req.Method
          /\ MatchString(entries[i].regex, last.req.Path)

\* the routes of the entries 1..n that were added without error, each as
\* the method it is filed under (ALL for a global route) and its regex
RoutePairs(n) ==
    {[Method |-> IF entries[i].global THEN <<"A", "L", "L">> ELSE ToUpper(entries[i].method),
      Regex |-> entries[i].regex] :
        i \in {k \in 1..n : RegexpCompiles(entries[k].regex)}}

\* C21: Routes holds exactly one entry per distinct pair of method (or ALL)
\* and regex that was added successfully; adding a pair that is there
\* already returns no error and changes nothing; LogMessages returns one
\* message per distinct pair.
C21_AddIsIdempotent ==
    /\ {[Method |-> <<"A", "L", "L">>, Regex |-> re] : re \in routes.global}
         \cup UNION {{[Method |-> m, Regex |-> re] : re \in routes.methods[m]} :
                        m \in DOMAIN routes.methods}
       = RoutePairs(Len(entries))
    /\ (last.op \in {"AddGlobalRegex", "AddMethodRegex"}
          /\ RoutePairs(Len(entries)) = RoutePairs(Len(entries) - 1)
          /\ RegexpCompiles(entries[Len(entries)].regex))
       => ~last.err /\ routes = last.before
    /\ last.op = "LogMessages" =>
          /\ Len(last.logs) = Cardinality(RoutePairs(Len(entries)))
          /\ {last.logs[i] : i \in 1..Len(last.logs)} = RoutePairs(Len(entries))

\* C21 witness: three successful adds of which two are the same pair (one
\* of them with the method in lower case), and LogMessages returned two
\* messages.
C21_Witness ==
    /\ last.op = "LogMessages"
    /\ Len(entries) = 3
    /\ \A i \in 1..3 : RegexpCompiles(entries[i].regex)
    /\ \E i, j \in 1..3 : i # j /\ ~entries[i].global /\ ~entries[j].global
                          /\ entries[i].method # entries[j].method
                          /\ ToUpper(entries[i].method) = ToUpper(entries[j].method)
                          /\ entries[i].regex = entries[j].regex
    /\ Len(last.logs) = 2

\* C22: AddGlobalRegex and AddMethodRegex called with a regex that does not
\* compile return an error and leave Routes as it was, with no entry and no
\* empty bucket made; every such call, a repeated one too, returns the error.
C22_BadRegexChangesNothing ==
    /\ \A m \in DOMAIN routes.methods : routes.methods[m] # {}
    /\ Len(msgs) = Cardinality({i \in DOMAIN entries : ~RegexpCompiles(entries[i].regex)})
    /\ (last.op \in {"AddGlobalRegex", "AddMethodRegex"}
          /\ ~RegexpCompiles(entries[Len(entries)].regex))
       => /\ last.err
          /\ last.msg = ErrorOf("error compiling regex", entries[Len(entries)].regex)
          /\ routes = last.before

\* C22 witness: AddMethodRegex was called twice with the same regex that
\* does not compile, for a method with no bucket, and returned two errors.
C22_Witness ==
    /\ last.op = "AddMethodRegex"
    /\ Len(entries) = 2
    /\ entries[1] = entries[2]
    /\ ~entries[1].global
    /\ ~RegexpCompiles(entries[1].regex)
    /\ last.err /\ Len(msgs) = 2
    /\ routes = NewRoutes
    /\ allowIPs = NewIPs

-----------------------------------------------------------------------------
(* Properties of the allowlist of addresses (SpecIPs) *)

\* C23: IPs.IsTrusted(req) is true exactly when the request's client
\* address was resolved and lies in a network that a successful
\* AddTrustedIP added; it is false for an address outside all added
\* networks, and when the resolution fails or gives no address.
C23_IPsIsTrusted ==
    last.op = "IPs.IsTrusted" =>
        (last.result <=>
            /\ last.req.ClientIP \notin {IPNil, IPErr}
            /\ \E k \in DOMAIN entries :
                  /\ ParseIPNetOK(entries[k])
                  /\ last.req.ClientIP \in NetAddrs(entries[k]))

\* C23 witness: a CIDR and a single address inside it were added, and an
\* IPv6 address; the request's address lies in both overlapping networks
\* and is trusted.
C23_Witness ==
    /\ last.op = "IPs.IsTrusted"
    /\ last.result
    /\ Len(entries) = 3
    /\ \E j, k \in DOMAIN entries :
          /\ j # k /\ entries[j] # entries[k]
          /\ last.req.ClientIP \in NetAddrs(entries[j]) \cap NetAddrs(entries[k])
    /\ \E k \in DOMAIN entries : entries[k] = "::1"

\* C24: AddTrustedIP with a string that does not parse returns an error and
\* leaves the networks and the raw entries as they were; with a string that
\* parses it returns no error, adds the network and appends the entry; so
\* the raw entries, and the messages of LogMessages, are the parseable
\* strings in the order they were added.
C24_BadIPChangesNothing ==
    /\ allowIPs.rawIPs = SelectSeq(entries, ParseIPNetOK)
    /\ allowIPs.trustedIPs = {entries[k] : k \in {j \in DOMAIN entries : ParseIPNetOK(entries[j])}}
    /\ last.op = "AddTrustedIP" =>
          IF ParseIPNetOK(entries[Len(entries)])
            THEN /\ ~last.err
                 /\ allowIPs.rawIPs = Append(last.before.rawIPs, entries[Len(entries)])
                 /\ allowIPs.trustedIPs = last.before.trustedIPs \cup {entries[Len(entries)]}
            ELSE /\ last.err
                 /\ last.msg = ErrorOf("could not parse IP network", entries[Len(entries)])
                 /\ allowIPs = last.before
    /\ last.op = "IPs.LogMessages" => last.logs = SelectSeq(entries, ParseIPNetOK)

\* C24 witness: after two successful adds, AddTrustedIP was given a string
\* that does not parse, returned an error and left the two entries.
C24_Witness ==
    /\ last.op = "AddTrustedIP"
    /\ Len(entries) = 3
    /\ ~ParseIPNetOK(entries[3])
    /\ last.err
    /\ Len(allowIPs.rawIPs) = 2 /\ allowIPs = last.before

-----------------------------------------------------------------------------
(* Properties of the validation layer *)

\* the options given to the validation
Given == entries[1]

\* only the preflight toggle is on; the trusted addresses are absent or empty
OnlyPreflight(o) ==
    /\ o.SkipAuthRoutes = <<>>
    /\ o.SkipAuthRegex = <<>>
    /\ o.SkipAuthPreflight
    /\ o.TrustedIPs \in {NilList, ListOf(<<>>)}

\* C25: a policy built with only the preflight toggle on allows every request
\* whose method is OPTIONS, whatever its path, and no request with another
\* method, in the Routes allowlist and in the engine the validation builds
C25_PreflightIsOptionsOnly ==
    (entries # <<>> /\ OnlyPreflight(Given)) =>
        /\ last.op = "IsTrusted" => (last.routes <=> last.req.Method = MethodOptions)
        /\ last.op = Allow => (last.result <=> last.req.Method = MethodOptions)

\* the route s has a '='
HasEq(s) == \E k \in 1..Len(s) : s[k] = "="

\* the place of the first '=' of s
FirstEq(s) == CHOOSE k \in 1..Len(s) : s[k] = "=" /\ \A j \in 1..(k - 1) : s[j] # "="

\* METHOD of the route METHOD=regex, in upper case
MethodOf(s) == ToUpper(SubSeq(s, 1, FirstEq(s) - 1))

\* the regex of a route: the whole string, or what follows the first '='
RegexOf(s) == IF HasEq(s) THEN SubSeq(s, FirstEq(s) + 1, Len(s)) ELSE s

\* the request matches the route by the grammar
RouteMatches(s, req) ==
    /\ RegexpCompiles(RegexOf(s))
    /\ MatchString(RegexOf(s), req.Path)
    /\ HasEq(s) => req.Method = MethodOf(s)

\* the rules the engine holds under the id
RulesOf(id) == {k \in 1..Len(Rules) : Rules[k].ID = id}

\* C26: a route without '=' becomes a global rule whose regex is the whole
\* string; a route with '=' becomes a rule of the method before the first '=',
\* in upper case, whose regex is all that follows the first '='; a request
\* matches a method-scoped route only if its method is that upper-cased method
C26_RouteGrammar ==
    entries # <<>> =>
        /\ \A i \in 1..Len(Given.SkipAuthRoutes) :
              LET s == Given.SkipAuthRoutes[i]
              IN  IF RegexpCompiles(RegexOf(s))
                    THEN /\ \E k \in RulesOf(RouteID(i - 1)) :
                               /\ RulesOf(RouteID(i - 1)) = {k}
                               /\ Rules[k].Policy = Allow
                               /\ ~Rules[k].Path.nil
                               /\ Rules[k].Path.Raw = RegexOf(s)
                               /\ Rules[k].Methods =
                                    IF HasEq(s) THEN SetOf({MethodOf(s)}) ELSE NilSet
                               /\ Rules[k].IPs = NilSet
                               /\ \A req \in ConfigRequests :
                                     checkPath(Rules[k], req) /\ checkMethods(Rules[k], req)
                                        <=> RouteMatches(s, req)
                         /\ IF HasEq(s)
                              THEN /\ MethodOf(s) \in DOMAIN routes.methods
                                   /\ RegexOf(s) \in routes.methods[MethodOf(s)]
                              ELSE s \in routes.global
                    ELSE /\ RulesOf(RouteID(i - 1)) = {}
                         /\ RegexOf(s) \notin routes.global
                         /\ \A m \in DOMAIN routes.methods : RegexOf(s) \notin routes.methods[m]
        /\ (Given.SkipAuthRegex = <<>> /\ ~Given.SkipAuthPreflight) =>
              /\ routes.global = {s \in Range(Given.SkipAuthRoutes) :
                                     ~HasEq(s) /\ RegexpCompiles(s)}
              /\ DOMAIN routes.methods =
                    {MethodOf(s) : s \in {t \in Range(Given.SkipAuthRoutes) :
                                             HasEq(t) /\ RegexpCompiles(RegexOf(t))}}
              /\ last.op = "IsTrusted" =>
                    (last.routes <=> \E i \in 1..Len(Given.SkipAuthRoutes) :
                                        RouteMatches(Given.SkipAuthRoutes[i], last.req))
              /\ (last.op = Allow /\ Given.TrustedIPs = ListOf(<<>>)) =>
                    (last.result <=> \E i \in 1..Len(Given.SkipAuthRoutes) :
                                        RouteMatches(Given.SkipAuthRoutes[i], last.req))

\* C26 witness: the route POST=^/foo=bar$ was configured and a POST of
\* /foo=bar was allowed by the engine
C26_Witness ==
    /\ entries # <<>>
    /\ Given.SkipAuthRoutes = << MethodPost \o <<"=", "^">> \o Str_fooeqbar \o <<"$">> >>
    /\ Given.TrustedIPs = ListOf(<<>>)
    /\ last.op = Allow
    /\ last.req.Path = Str_fooeqbar
    /\ last.req.Method = MethodPost
    /\ last.result

-----------------------------------------------------------------------------
(* Properties of the steps of the engine *)

\* the rules of the engine that pass the check of the call
Passing(req, verb) == {k \in 1..Len(Rules) : RuleCheck(Rules[k], req, verb)}

\* C27: while optimize is false, check evaluates the rules in insertion
\* order, returns true at the first rule that matches, increments the hits of
\* that rule only, evaluates no rule after it, and changes no hit counter of
\* an index, no candidate list and not the order of Indices
C27_LinearMode ==
    [][(~optimize /\ calls' = calls + 1) =>
          LET pass == Passing(last'.req, last'.op)
              first == CHOOSE k \in pass : \A j \in pass : k <= j
          IN  /\ ~last'.optimized
              /\ IF pass = {}
                   THEN /\ ~last'.result
                        /\ last'.evals = Len(Rules)
                        /\ Rules' = Rules
                   ELSE /\ last'.result
                        /\ last'.rule = first
                        /\ last'.evals = first
                        /\ Rules' = [Rules EXCEPT ![first].hits = @ + 1]
              /\ UNCHANGED <<Indices, optimize, pathIndex, methodsIndex, ipsIndex>>]_vars

\* C27 witness: a linear call matched the second rule or a later one, a rule
\* stands after it, and the path index holds candidates
C27_Witness ==
    /\ last.op \in {Allow, Deny}
    /\ ~last.optimized
    /\ last.result
    /\ last.rule >= 2
    /\ last.rule < Len(Rules)
    /\ Rules[last.rule].hits >= 1
    /\ Rules[last.rule + 1].hits = 0
    /\ Indices # <<>>

\* IndexRule of the index accepts the rule with handle k
AcceptedBy(name, k) ==
    CASE name = PathName -> PathIndexRule(Engine, k).ok
      [] name = MethodsName -> MethodsIndexRule(Engine, k).ok
      [] name = IPsName -> IPsIndexRule(Engine, k).ok

\* the first rule the index accepted
FirstAccepted(name) ==
    CHOOSE k \in 1..Len(Rules) :
        AcceptedBy(name, k) /\ \A j \in 1..(k - 1) : ~AcceptedBy(name, j)

\* the order in which AddRule offers a rule to the indices
OfferOrder == <<PathName, MethodsName, IPsName>>

OfferPlace(name) == CHOOSE p \in 1..Len(OfferOrder) : OfferOrder[p] = name

\* index a was activated before index b
ActivatedBefore(a, b) ==
    \/ FirstAccepted(a) < FirstAccepted(b)
    \/ FirstAccepted(a) = FirstAccepted(b) /\ OfferPlace(a) < OfferPlace(b)

\* C28: after a sequence of AddRule calls Indices holds exactly the indices
\* that accepted at least one rule, each once, in the order of their first
\* activation, the activations of one rule in the order path, methods, ips
C28_ActiveIndices ==
    /\ \A name \in Range(OfferOrder) :
          (\E i \in 1..Len(Indices) : Indices[i] = name)
             <=> (\E k \in 1..Len(Rules) : AcceptedBy(name, k))
    /\ \A i \in 1..Len(Indices) : Indices[i] \in Range(OfferOrder)
    /\ \A i, j \in 1..Len(Indices) : Indices[i] = Indices[j] => i = j
    /\ calls = 0 =>
          \A i, j \in 1..Len(Indices) :
              i < j => ActivatedBefore(Indices[i], Indices[j])

\* C28 witness: the first rule went to the ips index, the second to the path
\* and the methods index, and a later rule was accepted by an index already
\* active
C28_Witness ==
    /\ calls = 0
    /\ Indices = <<IPsName, PathName, MethodsName>>
    /\ Len(Rules) >= 3
    /\ AcceptedBy(IPsName, 1)
    /\ AcceptedBy(PathName, 2) /\ AcceptedBy(MethodsName, 2)
    /\ \E name \in Range(OfferOrder) : AcceptedBy(name, 3)

\* the names of the candidate lists the indices hold
BucketRefs ==
    {[idx |-> PathName, key |-> k] : k \in DOMAIN pathIndex.paths}
        \cup {[idx |-> MethodsName, key |-> m] : m \in DOMAIN methodsIndex.methods}
        \cup {[idx |-> IPsName, key |-> <<>>]}

\* the candidate lists of the indices
Buckets == [ref \in BucketRefs |-> Bucket(Engine, ref)]

\* C29: when check returns true for the candidate at position i of a candidate
\* list, that candidate is swapped with the one at position i-1 if and only if
\* i > 0 and the predecessor has strictly fewer hits than the matched rule has
\* after its increment; every other position of the list and every other list
\* stay as they are
C29_RuleBubbling ==
    [][(calls' = calls + 1 /\ last'.via \in Range(OfferOrder)) =>
          LET h == last'.rule
              ref == MatchRules(Engine, last'.via, last'.req).ref
              list == Bucket(Engine, ref)
              i == CHOOSE p \in 1..Len(list) : list[p] = h
              swaps == i > 1 /\ Rules[list[i - 1]].hits < Rules[h].hits + 1
          IN  /\ ref \in BucketRefs
              /\ \E p \in 1..Len(list) : list[p] = h
              /\ \A p, q \in 1..Len(list) : list[p] = list[q] => p = q
              /\ Rules' = [Rules EXCEPT ![h].hits = @ + 1]
              /\ Buckets' =
                    [Buckets EXCEPT ![ref] =
                        IF swaps
                          THEN [p \in 1..Len(list) |->
                                   IF p = i - 1 THEN list[i]
                                   ELSE IF p = i THEN list[i - 1]
                                   ELSE list[p]]
                          ELSE list]]_vars

\* C29 witness: after a match through an index the matched rule stands in a
\* candidate list before a rule that was added before it
C29_Witness ==
    /\ last.op \in {Allow, Deny}
    /\ last.via \in Range(OfferOrder)
    /\ \E ref \in BucketRefs :
          LET list == Buckets[ref]
          IN  \E p \in 1..(Len(list) - 1) :
                 /\ list[p] = last.rule
                 /\ list[p + 1] < list[p]
                 /\ Rules[list[p + 1]].hits < Rules[list[p]].hits

\* the hits of the indices do not increase from left to right
HitsNonIncreasing(e) ==
    \A i \in 1..(Len(e.Indices) - 1) :
        IndexHits(e, e.Indices[i]) >= IndexHits(e, e.Indices[i + 1])

RECURSIVE Passes(_, _)
\* k passes of prioritizeIndices
Passes(e, k) == IF k = 0 THEN e ELSE Passes(prioritizeIndices(e), k - 1)

RECURSIVE Carried(_, _)
\* the index a pass over the places 1..p of Indices holds in its hand: the
\* first one, and at each place the one of the two with strictly fewer hits,
\* the one in the hand when they are equal
Carried(e, p) ==
    IF p = 1 THEN e.Indices[1]
    ELSE LET c == Carried(e, p - 1)
         IN  IF IndexHits(e, c) < IndexHits(e, e.Indices[p]) THEN c ELSE e.Indices[p]

\* Indices after one compare-and-swap of each pair of neighbours from left to
\* right
OnePass(e) ==
    LET n == Len(e.Indices)
    IN  [p \in 1..n |->
            IF p = n THEN Carried(e, n)
            ELSE LET c == Carried(e, p)
                 IN  IF IndexHits(e, c) < IndexHits(e, e.Indices[p + 1])
                       THEN e.Indices[p + 1] ELSE c]

\* what C30 says of a pass over the indices of the engine as it is
PassIsOneSweep ==
    LET e == Engine
        n == Len(Indices)
        after == prioritizeIndices(e)
    IN  /\ after.Indices = OnePass(e)
        /\ [after EXCEPT !.Indices = Indices] = e
        /\ Len(after.Indices) = n
        /\ Range(after.Indices) = Range(Indices)
        /\ n > 0 => \A name \in Range(Indices) :
                       IndexHits(e, after.Indices[n]) <= IndexHits(e, name)
        /\ n > 0 => HitsNonIncreasing(Passes(e, n - 1))
        /\ n > 0 => Passes(e, n) = Passes(e, n - 1)
        /\ HitsNonIncreasing(e) => after = e

\* C30: a pass of the index reordering is one compare-and-swap of each pair of
\* neighbours of Indices from left to right, swapping when the left one has
\* strictly fewer hits: it keeps the set of indices and leaves an index of
\* minimal hits last; with unchanged hits n-1 passes give an order of
\* non-increasing hits, which further passes leave as it is.  A call of check
\* makes one such pass or none
C30_IndexPass ==
    /\ []PassIsOneSweep
    /\ [][(optimize /\ calls' = calls + 1) =>
             Indices' \in {Indices, prioritizeIndices(Engine).Indices}]_vars

\* C30 witness: a pass has moved the methods index before the path index,
\* which was active first, and has left the ips index, which has no hits,
\* in front of both: the order it left is not one of non-increasing hits
C30_Witness ==
    /\ Indices = <<IPsName, MethodsName, PathName>>
    /\ FirstAccepted(PathName) = FirstAccepted(MethodsName)
    /\ ipsIndex.hits = 0
    /\ methodsIndex.hits >= 1
    /\ ~HitsNonIncreasing(Engine)

\* the hit counters of the three indices
HitsOf == [name \in Range(OfferOrder) |-> IndexHits(Engine, name)]

\* MatchRules of the index returns candidates for the request
HasCandidates(name, req) ==
    LET ref == MatchRules(Engine, name, req).ref
    IN  ref # NoBucket /\ Bucket(Engine, ref) # <<>>

\* C31: in one optimized evaluation the hits of an active index increase by
\* exactly one if and only if the index is consulted and its MatchRules returns
\* a non-empty candidate list, whether or not a candidate then passes the
\* check; the hits of the indices that come after the one that produced the
\* match, and of the indices that are not active, are unchanged
C31_IndexHits ==
    [][(optimize /\ calls' = calls + 1) =>
          LET req == last'.req
              order == Indices'
              stop == IF last'.via \in Range(OfferOrder)
                        THEN CHOOSE p \in 1..Len(order) : order[p] = last'.via
                        ELSE Len(order)
              consulted == {order[p] : p \in 1..stop}
          IN  /\ last'.via \in Range(OfferOrder) => last'.via \in Range(order)
              /\ \A name \in Range(OfferOrder) :
                    HitsOf'[name] =
                        IF name \in consulted /\ HasCandidates(name, req)
                          THEN HitsOf[name] + 1 ELSE HitsOf[name]]_vars

\* C31 witness: the one optimized call so far found no rule, the path index
\* counted the hit of its candidates, and the ips index, active and consulted,
\* had none for the request and counted nothing
C31_Witness ==
    /\ calls = 1
    /\ last.optimized
    /\ ~last.result
    /\ pathIndex.hits = 1
    /\ ipsIndex.hits = 0
    /\ \E i \in 1..Len(Indices) : Indices[i] = IPsName

\* C32: within one call of Allow or Deny the check is applied to each rule id
\* at most once over all consulted indices and the fallback sweep, so a call
\* makes at most as many rule evaluations as there are rules and ends with a
\* boolean
C32_EachRuleOnce ==
    [][(calls' = calls + 1) =>
          LET pass == Passing(last'.req, last'.op)
              ids == {Rules[k].ID : k \in 1..Len(Rules)}
          IN  /\ last'.result \in BOOLEAN
              /\ last'.evals <= Cardinality(ids)
              /\ last'.evals <= Len(Rules)
              /\ last'.result <=> pass # {}
              /\ ~last'.result => last'.evals = Len(Rules)
              /\ last'.result =>
                    /\ last'.evals >= 1
                    /\ last'.evals <= Len(Rules) - Cardinality(pass) + 1]_vars

\* C32 witness: an optimized call consulted the path index and the methods
\* index, both of which hold one same rule among the candidates for the
\* request, found no rule, and made one evaluation for each rule
C32_Witness ==
    /\ calls = 1
    /\ last.optimized
    /\ ~last.result
    /\ last.evals = Len(Rules)
    /\ pathIndex.hits = 1
    /\ methodsIndex.hits = 1
    /\ last.req.Path \in DOMAIN pathIndex.paths
    /\ \E p \in 1..Len(pathIndex.paths[last.req.Path]) :
          \E q \in 1..Len(methodsIndex.methods[last.req.Method]) :
              pathIndex.paths[last.req.Path][p] = methodsIndex.methods[last.req.Method][q]

\* C33: Allow and Deny never modify the global rules list: it holds the same
\* rules in the order of the AddRule calls, and it only grows by appending
C33_GlobalListKept ==
    [][/\ Len(Rules') \in {Len(Rules), Len(Rules) + 1}
       /\ \A k \in 1..Len(Rules) : Added(Rules'[k]) = Added(Rules[k])
       /\ calls' = calls + 1 =>
             /\ Len(Rules') = Len(Rules)
             /\ \A k \in 1..Len(Rules) :
                   Rules'[k].hits =
                       IF last'.result /\ k = last'.rule
                         THEN Rules[k].hits + 1 ELSE Rules[k].hits]_vars

\* C33 witness: the fallback sweep decided the call with a rule whose
\* predecessor in the global list has fewer hits, and that predecessor is
\* still before it
C33_Witness ==
    /\ last.op \in {Allow, Deny}
    /\ last.via = "fallback"
    /\ last.result
    /\ last.rule >= 2
    /\ Rules[last.rule - 1].hits < Rules[last.rule].hits
    /\ Rules[last.rule - 1].ID[2] < Rules[last.rule].ID[2]

-----------------------------------------------------------------------------
(* Properties of the path index *)

\* the raw regex without one leading '^' and without one trailing '$'
Stripped(raw) ==
    LET a == IF raw # <<>> /\ Head(raw) = "^" THEN Tail(raw) ELSE raw
    IN  IF a # <<>> /\ a[Len(a)] = "$" THEN SubSeq(a, 1, Len(a) - 1) ELSE a

\* the rules with a path that are filed under the key, in the order added
FiledUnder(key) ==
    {k \in 1..Len(Rules) : ~Rules[k].Path.nil /\ Stripped(Rules[k].Path.Raw) = key}

\* the list holds exactly the handles of the set, in ascending order
ListsInOrder(list, set) ==
    /\ Len(list) = Cardinality(set)
    /\ \A p \in 1..Len(list) : list[p] \in set
    /\ \A p, q \in 1..Len(list) : p < q => list[p] < list[q]

\* C34: IndexRule files a rule with a path under the raw regex without one
\* leading '^' and one trailing '$', and never slices out of range for a
\* non-empty raw regex; MatchRules returns exactly the bucket whose key equals
\* the request path, and nothing when no key equals it
C34_PathKey ==
    /\ \A k \in 1..Len(Rules) :
          ~Rules[k].Path.nil =>
              LET raw == Rules[k].Path.Raw
                  sl == PathSlice(raw)
              IN  /\ raw # <<>>
                  /\ 0 <= sl.start /\ sl.start <= sl.end /\ sl.end <= Len(raw)
                  /\ PathKey(raw) = Stripped(raw)
                  /\ PathKey(raw) = SubSeq(raw, sl.start + 1, sl.end)
    /\ DOMAIN pathIndex.paths =
          {Stripped(Rules[k].Path.Raw) : k \in {j \in 1..Len(Rules) : ~Rules[j].Path.nil}}
    /\ \A key \in DOMAIN pathIndex.paths :
          ListsInOrder(pathIndex.paths[key], FiledUnder(key))
    /\ last.op = "MatchRules" =>
          /\ ListsInOrder(last.rules, FiledUnder(last.req.Path))
          /\ last.nil <=> FiledUnder(last.req.Path) = {}

\* C34 witness: the rules of the regexes '^', '$' and '^$' were filed, and
\* MatchRules returned the three for a request of the empty path
C34_Witness ==
    /\ last.op = "MatchRules"
    /\ last.req.Path = <<>>
    /\ Len(last.rules) = 3
    /\ {Rules[last.rules[p]].Path.Raw : p \in 1..3} = {<<"^">>, <<"$">>, <<"^", "$">>}

-----------------------------------------------------------------------------
(* Properties of the engine the validation builds *)

\* no route, no regex, no preflight, and the trusted addresses absent or empty
NothingConfigured(o) ==
    /\ o.SkipAuthRoutes = <<>>
    /\ o.SkipAuthRegex = <<>>
    /\ ~o.SkipAuthPreflight
    /\ o.TrustedIPs \in {NilList, ListOf(<<>>)}

\* C35: the engine validateAuthorization builds from a configuration without
\* routes, regexes, preflight and trusted addresses exempts nothing: it holds
\* no rule that matches every request, and Allow returns false
C35_NothingExempted ==
    (entries # <<>> /\ NothingConfigured(Given)) =>
        /\ \A k \in 1..Len(Rules) :
              \E req \in ConfigRequests : ~RuleCheck(Rules[k], req, Allow)
        /\ last.op = Allow => ~last.result

-----------------------------------------------------------------------------
(* Properties of the engine with rules of one id *)

\* C36: memoisation by rule id never hides a matching rule: the optimized
\* evaluation gives what the linear evaluation in insertion order gives, also
\* when two of the rules added carry the same id
C36_SameIdNotHidden ==
    last.op \in {Allow, Deny} =>
        (last.result <=> linearScan(Engine, last.req, last.op, 1).result)

-----------------------------------------------------------------------------
(* Properties of the racing swaps (SpecConc) *)

RECURSIVE Built(_)
\* the engine as AddRule leaves it after the first k rules, before any call
Built(k) == IF k = 0 THEN NewRulesEngine ELSE AddRuleTo(Built(k - 1), Added(Rules[k]))

\* the list holds the elements of the other list, each as often
IsPermutation(list, of) ==
    /\ Len(list) = Len(of)
    /\ \A h \in Range(list) \cup Range(of) :
          Cardinality({p \in 1..Len(list) : list[p] = h})
             = Cardinality({p \in 1..Len(of) : of[p] = h})

\* no call is under way
AllIdle == \A w \in Workers : wk[w].pc = "idle"

\* C37: under any interleaving of concurrent optimized evaluations, each swap
\* of the rule bubbling being two reads and two writes without a lock, every
\* candidate list remains a permutation of the rules indexed into it: no rule
\* is duplicated in a list or lost from it
C37_ListsStayPermutations ==
    AllIdle =>
        \A ref \in BucketRefs :
            IsPermutation(Bucket(Engine, ref), Bucket(Built(Len(Rules)), ref))

\* C38: under any interleaving of concurrent evaluations that may each run a
\* pass of the index reordering, each swap being two reads and two writes
\* without a lock, Indices still holds every activated index exactly once: no
\* index is permanently dropped from the list or duplicated in it
C38_IndicesStayPermutation ==
    AllIdle => IsPermutation(Indices, Built(Len(Rules)).Indices)

=============================================================================
